---- MODULE Spec2Model ----
(***************************************************************************)
(* A model of the AI-Powered-Notes-Summarizer backend: the history store   *)
(* adapter over Firestore and its Express routes, the summarize and upload *)
(* pipelines, the OCR worker lifecycle and the authentication middleware.  *)
(* Every specification below moves one part of the program and leaves the  *)
(* variables of the other parts at their initial values.                   *)
(***************************************************************************)
EXTENDS Integers, Sequences, FiniteSets, TLC

VARIABLES
  db,        \* Firestore: collection path -> set of documents
  nextId,    \* the next auto-generated document id
  owners,    \* ghost: owners[id] is the userId the document id was saved under
  hpc,       \* history routes: each client's position in its handler
  hreq,      \* history routes: each client's request
  hres,      \* history routes: each client's response
  ppc,       \* pipelines: the request's position in its middleware chain
  preq,      \* pipelines: the request in flight
  pcalls,    \* pipelines: the stages the request has invoked, in order
  pout,      \* pipelines: what the adapters returned to the controller
  pres,      \* pipelines: the response sent
  opc,       \* OCR: the position of the running operation
  oimpl,     \* OCR: which function is running
  ow,        \* OCR: the operation's `worker` variable (0: undefined)
  workers,   \* OCR: for every worker created, its count of terminate() calls
  oerr,      \* OCR: the error on its way to the catch block
  oret,      \* OCR: what the operation returned, threw or answered
  apc,       \* auth: the request's position in its middleware chain
  areq,      \* auth: the request (endpoint and Authorization header)
  auser,     \* auth: req.user
  aguest,    \* auth: req.isGuest
  ares,      \* auth: the response, who sent it, and whether the handler ran
  spc,       \* service calls: the caller's position
  sreq,      \* service calls: the call and its arguments
  sret,      \* service calls: what the call returned or threw
  users,     \* auth API: the users collection (MongoDB)
  nextUserId, \* auth API: the next generated _id
  vpc,       \* auth API: each client's position in POST /api/auth/verify
  vreq,      \* auth API: each client's verify request and what it has found
  vres,      \* auth API: each client's response
  clock,     \* auth API: Date.now(), in milliseconds
  gres       \* auth API: the response of the last POST /api/auth/guest

storeVars == <<db, nextId, owners>>
histVars == <<hpc, hreq, hres>>
pipeVars == <<ppc, preq, pcalls, pout, pres>>
ocrVars == <<opc, oimpl, ow, workers, oerr, oret>>
authVars == <<apc, areq, auser, aguest, ares>>
svcVars == <<spc, sreq, sret>>
apiVars == <<users, nextUserId, vpc, vreq, vres, clock, gres>>
vars == <<storeVars, histVars, pipeVars, ocrVars, authVars, svcVars, apiVars>>

\* What the history routes and direct store calls never touch.
outsideStore == <<pipeVars, ocrVars, authVars, svcVars, apiVars>>

NULL == "null"
\* A property no code has assigned, such as req.user on a route without
\* authentication middleware.
Unset == "undefined"

\* How many documents the store ever allocates an id for.
MaxDocs == 2

(***************************************************************************)
(* The document store                                                      *)
(***************************************************************************)
Users == {"uA", "uB"}
OwnerIds == Users \cup {NULL}

\* db.collection("history"): the global collection of anonymous records.
historyCollection == "history"

\* A plausible slip: every user is handed the one shared collection.
getUserSummariesRef_shared(userId) == historyCollection

\* firestore.collection("users").doc(userId).collection("summaries"),
\* named here by the user it is nested under.
getUserSummariesRef(userId) == userId

Colls == {historyCollection} \cup Users

\* The `if (userId) ... else ...` that every service function opens with.
CollOf(userId) ==
  IF userId # NULL THEN getUserSummariesRef(userId) ELSE historyCollection

Exists(coll, id) == \E d \in db[coll] : d.id = id
DocAt(coll, id) == CHOOSE d \in db[coll] : d.id = id

\* ghost: the id was allocated by a save under `userId`.
OwnedBy(id, userId) == id \in 1..Len(owners) /\ owners[id] = userId

StoreInit ==
  /\ db = [c \in Colls |-> {}]
  /\ nextId = 1
  /\ owners = <<>>

\* JavaScript's `v || d` on strings, arrays and null.
OrElse(v, d) == IF v = NULL \/ v = "" THEN d ELSE v

\* original.split(/\s+/).filter((word) => word.length > 0).length: the
\* texts of the model are names, "t1" for a text of three words and "t2"
\* for one of five.
WordCount(text) ==
  CASE text = "t1" -> 3
    [] text = "t2" -> 5
    [] OTHER -> 0

\* A plausible slip: the key points are stored sorted, not as supplied.
SummaryData_sorted(id, original, summary, keyPoints) ==
  [id |-> id,
   original |-> OrElse(original, ""),
   originalContent |-> OrElse(original, ""),
   summary |-> OrElse(summary, ""),
   summarizedContent |-> OrElse(summary, ""),
   keyPoints |-> IF Len(keyPoints) = 2 /\ keyPoints[1] = "k2"
                   THEN <<keyPoints[2], keyPoints[1]>> ELSE keyPoints,
   createdAt |-> id,
   timestamp |-> id,
   wordCount |-> WordCount(original),
   keyPointsCount |-> Len(OrElse(keyPoints, <<>>)),
   fileType |-> Unset,
   version |-> "2.0",
   updatedAt |-> NULL]

\* summaryData: the fields of a new record that the services and routes
\* read back. Ids are handed out in the order of creation, so the id of a
\* record stands for the instant of its createdAt and timestamp. A record
\* has no updatedAt until its first update, and no fileType unless the
\* caller's metadata names one.
SummaryData(id, original, summary, keyPoints) ==
  [id |-> id,
   original |-> OrElse(original, ""),
   originalContent |-> OrElse(original, ""),
   summary |-> OrElse(summary, ""),
   summarizedContent |-> OrElse(summary, ""),
   keyPoints |-> OrElse(keyPoints, <<>>),
   createdAt |-> id,
   timestamp |-> id,
   wordCount |-> WordCount(original),
   keyPointsCount |-> Len(OrElse(keyPoints, <<>>)),
   fileType |-> Unset,
   version |-> "2.0",
   updatedAt |-> NULL]

\* docRef = await collection.add(summaryData): the record joins the
\* caller's collection under a new id.
AddSummary(original, summary, keyPoints, userId) ==
  /\ db' = [db EXCEPT ![CollOf(userId)] =
              @ \cup {SummaryData(nextId, original, summary, keyPoints)}]
  /\ nextId' = nextId + 1
  /\ owners' = Append(owners, userId)

\* saveSummary: builds the record and adds it to the caller's collection.
saveSummary(original, summary, keyPoints, userId) ==
  /\ nextId <= MaxDocs
  /\ AddSummary(original, summary, keyPoints, userId)

(***************************************************************************)
(* The history routes (Express router over the history services)           *)
(***************************************************************************)
Clients == {"c1", "c2"}
NoReq == [op |-> "none"]
NoRes == [status |-> 0]

HistInit ==
  /\ hpc = [c \in Clients |-> "idle"]
  /\ hreq = [c \in Clients |-> NoReq]
  /\ hres = [c \in Clients |-> NoRes]

InFlight(c) == hpc[c] \notin {"idle", "done"}

\* Error messages of the services and of Firestore, as the routes see them
\* after the services' `throw new Error("Failed to ...: " + error.message)`.
MsgFetchNotFound == "Failed to fetch summary: Summary not found"
MsgDeleteDenied == "Failed to delete summary: Summary not found or access denied"
MsgUpdateDenied == "Failed to update summary: Summary not found or access denied"
\* docRef.update() on a missing document rejects with gRPC status 5.
MsgUpdateNoDoc == "Failed to update summary: 5 NOT_FOUND: No document to update"
\* updatedDoc.data() is undefined when the document vanished before the re-read.
MsgUpdateGone == "Failed to update summary: Cannot read properties of undefined"
\* docRef.delete() rejecting, as deleteSummary rethrows it.
MsgDeleteFailed == "Failed to delete summary: 14 UNAVAILABLE"

\* error.message.includes("not found"), case-sensitive as in JavaScript.
IncludesNotFound(msg) == msg \in {MsgFetchNotFound, MsgDeleteDenied, MsgUpdateDenied}
\* error.message.includes("access denied")
IncludesAccessDenied(msg) == msg \in {MsgDeleteDenied, MsgUpdateDenied}

\* The catch block of router.get("/:id").
GetErrorStatus(msg) == IF IncludesNotFound(msg) THEN 404 ELSE 500
\* The catch blocks of router.delete("/:id") and router.put("/:id").
WriteErrorStatus(msg) ==
  IF IncludesNotFound(msg) \/ IncludesAccessDenied(msg) THEN 404 ELSE 500

Ok(data, wrote) ==
  [status |-> 200, message |-> NULL, data |-> data, wrote |-> wrote]
Err(status, msg, wrote) ==
  [status |-> status, message |-> msg, data |-> NULL, wrote |-> wrote]

\* The update bodies a PUT may carry: none, or a new summary text.
NoUpdates == [summary |-> NULL]
UpdateBodies == {NoUpdates, [summary |-> "s2"]}

\* The ids a client can name: those handed out so far, and 0 for an id that
\* no document was ever given.
TargetIds == 0..(nextId - 1)

\* A request enters router.get/delete/put("/:id") with the userId that
\* verifyToken resolved (req.user?.uid || null).
HistoryRequest(c, op, id, userId, updates) ==
  /\ hpc[c] = "idle"
  /\ id \in TargetIds
  /\ updates # NoUpdates <=> op = "update"
  /\ hreq' = [hreq EXCEPT ![c] =
       [op |-> op, id |-> id, userId |-> userId, updates |-> updates,
        absent |-> ~Exists(CollOf(userId), id),
        peers |-> {q \in Clients : InFlight(q)}]]
  /\ hpc' = [hpc EXCEPT ![c] =
       CASE op = "get" -> "get_read"
         [] op = "delete" -> IF userId # NULL THEN "del_get" ELSE "del_write"
         [] op = "update" -> IF userId # NULL THEN "upd_get" ELSE "upd_write"]
  /\ hres' = [hres EXCEPT ![c] = NoRes]
  /\ UNCHANGED <<storeVars, outsideStore>>

\* router.put("/:id") with an empty body: 400 before the service is called.
PutEmpty(c, id, userId) ==
  /\ hpc[c] = "idle"
  /\ id \in TargetIds
  /\ hreq' = [hreq EXCEPT ![c] =
       [op |-> "update", id |-> id, userId |-> userId, updates |-> NoUpdates,
        absent |-> ~Exists(CollOf(userId), id), peers |-> {}]]
  /\ hpc' = [hpc EXCEPT ![c] = "done"]
  /\ hres' = [hres EXCEPT ![c] = Err(400, "No update data provided", FALSE)]
  /\ UNCHANGED <<storeVars, outsideStore>>

Respond(c, r) ==
  /\ hpc' = [hpc EXCEPT ![c] = "done"]
  /\ hres' = [hres EXCEPT ![c] = r]
  /\ UNCHANGED hreq

Goto(c, pc) ==
  /\ hpc' = [hpc EXCEPT ![c] = pc]
  /\ UNCHANGED <<hreq, hres>>

\* getSummaryById: one read of the scoped document.
GetRead(c) ==
  /\ hpc[c] = "get_read"
  /\ LET coll == CollOf(hreq[c].userId)
         id == hreq[c].id
     IN IF Exists(coll, id)
          THEN Respond(c, Ok(DocAt(coll, id), FALSE))
          ELSE Respond(c, Err(GetErrorStatus(MsgFetchNotFound), MsgFetchNotFound, FALSE))
  /\ UNCHANGED <<storeVars, outsideStore>>

\* deleteSummary with a userId: the existence check before the delete.
DelGet(c) ==
  /\ hpc[c] = "del_get"
  /\ IF Exists(CollOf(hreq[c].userId), hreq[c].id)
       THEN Goto(c, "del_write")
       ELSE Respond(c, Err(WriteErrorStatus(MsgDeleteDenied), MsgDeleteDenied, FALSE))
  /\ UNCHANGED <<storeVars, outsideStore>>

\* deleteSummary: docRef.delete(), which succeeds whether or not the
\* document exists.
DelWrite(c) ==
  /\ hpc[c] = "del_write"
  /\ LET coll == CollOf(hreq[c].userId)
         id == hreq[c].id
     IN /\ db' = [db EXCEPT ![coll] = {d \in @ : d.id # id}]
        /\ Respond(c, Ok([success |-> TRUE, id |-> id], db' # db))
  /\ UNCHANGED <<nextId, owners, outsideStore>>

\* updateSummary with a userId: the existence check before the update.
UpdGet(c) ==
  /\ hpc[c] = "upd_get"
  /\ IF Exists(CollOf(hreq[c].userId), hreq[c].id)
       THEN Goto(c, "upd_write")
       ELSE Respond(c, Err(WriteErrorStatus(MsgUpdateDenied), MsgUpdateDenied, FALSE))
  /\ UNCHANGED <<storeVars, outsideStore>>

\* updateData = { ...updates, updatedAt: new Date(), version: "2.0" }
UpdateData(updates) == [updatedAt |-> "now", version |-> "2.0"] @@ updates

\* A plausible slip: the update also restamps createdAt.
DocUpdate_restamp(d, updateData) ==
  [f \in DOMAIN d \cup DOMAIN updateData |->
     IF f \in DOMAIN updateData THEN updateData[f]
     ELSE IF f = "createdAt" THEN 0 ELSE d[f]]

\* docRef.update(updateData): the named fields are set, the others kept.
DocUpdate(d, updateData) ==
  [f \in DOMAIN d \cup DOMAIN updateData |->
     IF f \in DOMAIN updateData THEN updateData[f] ELSE d[f]]

\* updateSummary: docRef.update({...updates, updatedAt, version}), which
\* rejects when the document does not exist.
UpdWrite(c) ==
  /\ hpc[c] = "upd_write"
  /\ LET coll == CollOf(hreq[c].userId)
         id == hreq[c].id
     IN IF Exists(coll, id)
          THEN /\ db' = [db EXCEPT ![coll] =
                    {IF d.id = id
                       THEN DocUpdate(d, UpdateData(hreq[c].updates))
                       ELSE d : d \in @}]
               /\ hpc' = [hpc EXCEPT ![c] = "upd_read"]
               /\ hres' = [hres EXCEPT ![c] = [status |-> 0, wrote |-> TRUE]]
               /\ UNCHANGED hreq
          ELSE /\ Respond(c, Err(WriteErrorStatus(MsgUpdateNoDoc), MsgUpdateNoDoc, FALSE))
               /\ UNCHANGED db
  /\ UNCHANGED <<nextId, owners, outsideStore>>

\* updateSummary: the re-read whose data is returned.
UpdRead(c) ==
  /\ hpc[c] = "upd_read"
  /\ LET coll == CollOf(hreq[c].userId)
         id == hreq[c].id
     IN IF Exists(coll, id)
          THEN Respond(c, Ok(DocAt(coll, id), TRUE))
          ELSE Respond(c, Err(WriteErrorStatus(MsgUpdateGone), MsgUpdateGone, TRUE))
  /\ UNCHANGED <<storeVars, outsideStore>>

\* What one call of the summarizer made of the text `original`.
Summarized(original) == [summary |-> "s1", keyPoints |-> <<"k1", "k2">>]

\* A store adapter call made directly: save(record, ownerId?), the record
\* being a text with its summary and key points.
Save(userId) ==
  /\ saveSummary("t1", Summarized("t1").summary, Summarized("t1").keyPoints,
                 userId)
  /\ UNCHANGED <<histVars, outsideStore>>

\* The bodies of the PUTs of one client that edits its records: a new
\* summary, new key points, a new text with its summary, and a body that
\* names updatedAt itself.
UpdateFields ==
  {[summary |-> "s2"], [keyPoints |-> <<"k3">>],
   [original |-> "t2", summary |-> "s2"], [updatedAt |-> "then"]}

UpdateNext ==
  \/ \E u \in OwnerIds : Save(u)
  \/ \E id \in 0..MaxDocs, u \in OwnerIds, b \in UpdateFields :
       HistoryRequest("c1", "update", id, u, b)
  \/ \E c \in Clients :
       \/ UpdGet(c)
       \/ UpdWrite(c)
       \/ UpdRead(c)

StoreNext ==
  \/ \E u \in OwnerIds : Save(u)
  \/ \E c \in Clients, op \in {"get", "delete", "update"}, id \in 0..MaxDocs,
        u \in OwnerIds, b \in UpdateBodies : HistoryRequest(c, op, id, u, b)
  \/ \E c \in Clients, id \in 0..MaxDocs, u \in OwnerIds : PutEmpty(c, id, u)
  \/ \E c \in Clients :
       \/ GetRead(c)
       \/ DelGet(c)
       \/ DelWrite(c)
       \/ UpdGet(c)
       \/ UpdWrite(c)
       \/ UpdRead(c)

(***************************************************************************)
(* The history services called directly                                    *)
(***************************************************************************)
NoCall == [op |-> "none"]
NoSret == [ok |-> FALSE, data |-> NULL, message |-> NULL]

ServiceInit ==
  /\ spc = "idle"
  /\ sreq = NoCall
  /\ sret = NoSret

\* What a direct service call never touches.
outsideSvc == <<histVars, pipeVars, ocrVars, authVars, apiVars>>

Returned(data) == [ok |-> TRUE, data |-> data, message |-> NULL]
Thrown(message) == [ok |-> FALSE, data |-> NULL, message |-> message]

\* The summaries and key point lists a caller hands to saveSummary.
SavedSummaries == {"s1", ""}
SavedKeyPoints == {<<>>, <<"k1", "k2">>, <<"k2", "k1">>}

\* getSummaryById: the scoped document with its id, or "Summary not found".
getSummaryById(summaryId, userId) ==
  IF Exists(CollOf(userId), summaryId)
    THEN Returned(DocAt(CollOf(userId), summaryId))
    ELSE Thrown(MsgFetchNotFound)

\* await saveSummary(original, summary, keyPoints, {}, userId): the caller
\* keeps the returned id.
CallSave(summary, keyPoints, userId) ==
  /\ spc = "idle"
  /\ saveSummary("t1", summary, keyPoints, userId)
  /\ sreq' = [op |-> "save", summary |-> summary, keyPoints |-> keyPoints,
              userId |-> userId, id |-> nextId]
  /\ sret' = Returned(SummaryData(nextId, "t1", summary, keyPoints))
  /\ spc' = "saved"
  /\ UNCHANGED outsideSvc

\* await getSummaryById(saved.id, userId), with the ownerId of the save.
CallGetById ==
  /\ spc = "saved"
  /\ sret' = getSummaryById(sreq.id, sreq.userId)
  /\ spc' = "read"
  /\ UNCHANGED <<sreq, storeVars, outsideSvc>>

\* The caller is done with what it read.
CallReturn ==
  /\ spc = "read"
  /\ spc' = "idle"
  /\ sreq' = NoCall
  /\ sret' = NoSret
  /\ UNCHANGED <<storeVars, outsideSvc>>

\* The defaults of getHistory's options.
DefaultLimit == 50
DefaultOptions ==
  [limit |-> DefaultLimit, offset |-> 0, sortBy |-> "createdAt",
   sortOrder |-> "desc"]

\* Firestore's orderBy(field) leaves out every document without the field.
\* saveSummary writes createdAt; only updateSummary writes updatedAt.
HasField(doc, field) ==
  \/ field = "createdAt"
  \/ field = "updatedAt" /\ doc.updatedAt # NULL

\* Ids are handed out in the order of creation, so a document's id stands
\* for its createdAt; the updatedAt of all updated documents is the same
\* instant, and Firestore orders equal values by document name.
Precedes(a, b, sortOrder) ==
  IF sortOrder = "asc" THEN a.id < b.id ELSE a.id > b.id

\* collection.orderBy(sortBy, sortOrder)
OrderBy(coll, sortBy, sortOrder) ==
  LET docs == {d \in db[coll] : HasField(d, sortBy)}
      Rank(d) == Cardinality({e \in docs : e = d \/ Precedes(e, d, sortOrder)})
  IN [i \in 1..Cardinality(docs) |-> CHOOSE d \in docs : Rank(d) = i]

\* query.startAfter(lastDoc)
StartAfter(q, lastDoc, sortOrder) ==
  SelectSeq(q, LAMBDA d : Precedes(lastDoc, d, sortOrder))

\* query.limit(n).get()
Limit(q, n) == SubSeq(q, 1, IF Len(q) < n THEN Len(q) ELSE n)

\* await getHistory(userId) then allSummaries.map(deleteSummary): the list
\* query resolves and one deleteSummary per listed record starts, each up
\* to its first await (the existence check when there is a userId).
BulkList(userId) ==
  /\ spc = "idle"
  /\ LET listed == Limit(OrderBy(CollOf(userId), DefaultOptions.sortBy,
                                 DefaultOptions.sortOrder),
                         DefaultOptions.limit)
         ids == {listed[i].id : i \in 1..Len(listed)}
     IN sreq' = [op |-> "bulk", userId |-> userId, count |-> Len(listed),
                 deletes |-> [id \in ids |->
                                IF userId # NULL THEN "get" ELSE "delete"]]
  /\ spc' = "deleting"
  /\ UNCHANGED <<sret, storeVars, outsideSvc>>

\* Promise.all rejects at the first rejection and the route's catch then
\* answers at once; until then, and after the answer, the deletes go on.
MaySettle(id) ==
  /\ spc \in {"deleting", "read"}
  /\ sreq.op = "bulk"
  /\ id \in DOMAIN sreq.deletes
  /\ spc = "deleting" => \A i \in DOMAIN sreq.deletes : sreq.deletes[i] # "failed"

\* deleteSummary: the existence check of a delete with a userId.
BulkDelGet(id) ==
  /\ MaySettle(id)
  /\ sreq.deletes[id] = "get"
  /\ sreq' = [sreq EXCEPT !.deletes[id] =
                IF Exists(CollOf(sreq.userId), id) THEN "delete" ELSE "failed"]
  /\ UNCHANGED <<spc, sret, storeVars, outsideSvc>>

\* deleteSummary: docRef.delete() resolves.
BulkDelWrite(id) ==
  /\ MaySettle(id)
  /\ sreq.deletes[id] = "delete"
  /\ db' = [db EXCEPT ![CollOf(sreq.userId)] = {d \in @ : d.id # id}]
  /\ sreq' = [sreq EXCEPT !.deletes[id] = "ok"]
  /\ UNCHANGED <<spc, sret, nextId, owners, outsideSvc>>

\* deleteSummary: docRef.delete() rejects (the store is unavailable).
BulkDelReject(id) ==
  /\ MaySettle(id)
  /\ sreq.deletes[id] = "delete"
  /\ sreq' = [sreq EXCEPT !.deletes[id] = "failed"]
  /\ UNCHANGED <<spc, sret, storeVars, outsideSvc>>

\* router.delete("/"): await Promise.all(deletePromises), then the 200 with
\* deletedCount, or the catch's 500.
BulkRespond ==
  /\ spc = "deleting"
  /\ \/ /\ \A id \in DOMAIN sreq.deletes : sreq.deletes[id] = "ok"
        /\ sret' = Returned(sreq.count)
     \/ /\ \E id \in DOMAIN sreq.deletes : sreq.deletes[id] = "failed"
        /\ sret' = Thrown(MsgDeleteFailed)
  /\ spc' = "read"
  /\ UNCHANGED <<sreq, storeVars, outsideSvc>>

BulkNext ==
  \/ \E u \in OwnerIds : Save(u)
  \/ \E u \in OwnerIds : BulkList(u)
  \/ \E id \in 1..MaxDocs :
       \/ BulkDelGet(id)
       \/ BulkDelWrite(id)
       \/ BulkDelReject(id)
  \/ BulkRespond

\* Clearing a long history: one caller saves up to one record more than
\* the default page holds, with no insert while a bulk delete is running.
ClearOwner == "uA"
ClearDocs == DefaultLimit + 1

SaveMany ==
  /\ spc = "idle"
  /\ nextId <= ClearDocs
  /\ AddSummary("t1", Summarized("t1").summary, Summarized("t1").keyPoints,
                ClearOwner)
  /\ UNCHANGED <<svcVars, outsideSvc>>

\* Every deleteSummary the route started runs to its end: the existence
\* check finds the record and docRef.delete() removes it.  With no other
\* writer the deletes of different records commute, so they are taken
\* together.
BulkDelAll ==
  /\ spc = "deleting"
  /\ sreq.op = "bulk"
  /\ DOMAIN sreq.deletes # {}
  /\ \A id \in DOMAIN sreq.deletes : sreq.deletes[id] \in {"get", "delete"}
  /\ db' = [db EXCEPT ![CollOf(sreq.userId)] =
              {d \in @ : d.id \notin DOMAIN sreq.deletes}]
  /\ sreq' = [sreq EXCEPT !.deletes = [id \in DOMAIN sreq.deletes |-> "ok"]]
  /\ UNCHANGED <<spc, sret, nextId, owners, outsideSvc>>

ClearNext ==
  \/ SaveMany
  \/ spc = "idle" /\ BulkList(ClearOwner)
  \/ BulkDelAll
  \/ BulkRespond

PDF == "application/pdf"
DOCX == "application/vnd.openxmlformats-officedocument.wordprocessingml.document"

\* uploadFileController's save: saveSummary(extractedText, summary,
\* keyPoints, { filename, fileType: mimetype, fileSize }) with no userId, so
\* the record carries a fileType and goes to the global collection.
SaveUpload(mimetype) ==
  /\ nextId <= MaxDocs
  /\ db' = [db EXCEPT ![CollOf(NULL)] =
              @ \cup {[SummaryData(nextId, "t2", Summarized("t2").summary,
                                   Summarized("t2").keyPoints)
                         EXCEPT !.fileType = mimetype]}]
  /\ nextId' = nextId + 1
  /\ owners' = Append(owners, NULL)
  /\ UNCHANGED <<svcVars, outsideSvc>>

\* The records of the model are created a day apart, record n on day n, and
\* the statistics are asked for on one of these days.
StatsNows == {2, 8, 20, 31, 40}

RECURSIVE TotalOf(_, _)
\* summaries.reduce((sum, s) => sum + (s[field] || 0), 0)
TotalOf(summaries, field) ==
  IF summaries = {} THEN 0
  ELSE LET s1 == CHOOSE d \in summaries : TRUE
       IN s1[field] + TotalOf(summaries \ {s1}, field)

\* A plausible slip: the statistics always scan the global collection.
StatsScope_global(userId) == db[historyCollection]

\* snapshot = await collectionRef.get(): every record of the caller's scope.
StatsScope(userId) == db[CollOf(userId)]

\* summary.fileType || "text"
FileTypeOf(summary) ==
  IF summary.fileType = Unset THEN "text" ELSE summary.fileType

\* getSummaryStats after the snapshot has come.
SummaryStats(summaries, now) ==
  [totalSummaries |-> Cardinality(summaries),
   totalWords |-> TotalOf(summaries, "wordCount"),
   totalKeyPoints |-> TotalOf(summaries, "keyPointsCount"),
   fileTypes |-> [t \in {FileTypeOf(d) : d \in summaries} |->
                    Cardinality({d \in summaries : FileTypeOf(d) = t})],
   recentActivity |->
     [last7Days |-> Cardinality({d \in summaries : d.createdAt > now - 7}),
      last30Days |-> Cardinality({d \in summaries : d.createdAt > now - 30})]]

\* getSummaryStats(userId): one read of the collection, then the counting.
CallStats(userId, now) ==
  /\ spc = "idle"
  /\ now >= nextId - 1
  /\ sreq' = [op |-> "stats", userId |-> userId, now |-> now]
  /\ sret' = Returned(SummaryStats(StatsScope(userId), now))
  /\ spc' = "read"
  /\ UNCHANGED <<storeVars, outsideSvc>>

StatsNext ==
  \/ \E u \in OwnerIds : Save(u)
  \/ \E mimetype \in {PDF, DOCX} : SaveUpload(mimetype)
  \/ \E u \in OwnerIds, now \in StatsNows : CallStats(u, now)
  \/ CallReturn

\* The options a caller of GET /api/history can ask for.
ListOptions ==
  [limit : {1, 2, DefaultLimit}, offset : 0..(MaxDocs + 1),
   sortBy : {"createdAt", "updatedAt"}, sortOrder : {"asc", "desc"}]

\* getHistory(userId, options) up to its first await; `snapshot` is a ghost,
\* the scoped collection as it was when the call began.
CallList(userId, options) ==
  /\ spc = "idle"
  /\ sreq' = [op |-> "list", userId |-> userId, options |-> options,
              cursor |-> <<>>, snapshot |-> db[CollOf(userId)]]
  /\ spc' = IF options.offset > 0 THEN "list_offset" ELSE "list_page"
  /\ UNCHANGED <<sret, storeVars, outsideSvc>>

\* getHistory: await query.limit(offset).get(); the last document of a
\* non-empty snapshot becomes the cursor.
ListOffset ==
  /\ spc = "list_offset"
  /\ LET o == sreq.options
         skipped == Limit(OrderBy(CollOf(sreq.userId), o.sortBy, o.sortOrder),
                          o.offset)
     IN sreq' = [sreq EXCEPT !.cursor =
                   IF skipped # <<>> THEN <<skipped[Len(skipped)]>> ELSE <<>>]
  /\ spc' = "list_page"
  /\ UNCHANGED <<sret, storeVars, outsideSvc>>

\* getHistory: await query.limit(limit).get() and the mapped documents.
ListPage ==
  /\ spc = "list_page"
  /\ LET o == sreq.options
         query == OrderBy(CollOf(sreq.userId), o.sortBy, o.sortOrder)
         from == IF sreq.cursor # <<>>
                   THEN StartAfter(query, sreq.cursor[1], o.sortOrder)
                   ELSE query
     IN sret' = Returned(Limit(from, o.limit))
  /\ spc' = "read"
  /\ UNCHANGED <<sreq, storeVars, outsideSvc>>

\* One client of the history router sends an update while lists are made.
ListNext ==
  \/ \E u \in OwnerIds : Save(u)
  \/ \E id \in 1..MaxDocs, u \in OwnerIds :
       HistoryRequest("c1", "update", id, u, [summary |-> "s2"])
  \/ UpdGet("c1")
  \/ UpdWrite("c1")
  \/ UpdRead("c1")
  \/ \E u \in OwnerIds, o \in ListOptions : CallList(u, o)
  \/ ListOffset
  \/ ListPage
  \/ CallReturn

RoundTripNext ==
  \/ \E s \in SavedSummaries, k \in SavedKeyPoints, u \in OwnerIds :
       CallSave(s, k, u)
  \/ CallGetById
  \/ CallReturn

(***************************************************************************)
(* The summarizer: parsing the model's reply                               *)
(***************************************************************************)
\* A reply is a sequence of tokens: the two literal markers, the newline,
\* the space, and two words that contain neither marker nor white space.
SummaryMarker == "Summary"
KeyPointsMarker == "Key Points"
Newline == "\n"
Space == " "
ReplyTokens == {SummaryMarker, KeyPointsMarker, Newline, Space, "a", "b"}
WhiteSpace == {Newline, Space}

\* How long a reply is, in tokens.
MaxReplyLen == 4

RawTexts == UNION {[1..n -> ReplyTokens] : n \in 0..MaxReplyLen}

\* The placeholder of `|| "No summary"`.
NoSummary == <<"No summary">>

\* String.prototype.indexOf, 0 when the separator does not occur.
IndexOf(str, sep) ==
  IF \E i \in 1..Len(str) : str[i] = sep
    THEN CHOOSE i \in 1..Len(str) :
           str[i] = sep /\ \A j \in 1..(i - 1) : str[j] # sep
    ELSE 0

RECURSIVE Split(_, _)
\* String.prototype.split(sep): every part, the empty ones included.
Split(str, sep) ==
  LET i == IndexOf(str, sep)
  IN IF i = 0
       THEN <<str>>
       ELSE <<SubSeq(str, 1, i - 1)>> \o Split(SubSeq(str, i + 1, Len(str)), sep)

\* String.prototype.replace(sep, ""): the first occurrence only.
ReplaceFirst(str, sep) ==
  LET i == IndexOf(str, sep)
  IN IF i = 0 THEN str ELSE SubSeq(str, 1, i - 1) \o SubSeq(str, i + 1, Len(str))

RECURSIVE TrimStart(_)
TrimStart(str) ==
  IF str # <<>> /\ Head(str) \in WhiteSpace THEN TrimStart(Tail(str)) ELSE str

RECURSIVE TrimEnd(_)
TrimEnd(str) ==
  IF str # <<>> /\ str[Len(str)] \in WhiteSpace
    THEN TrimEnd(SubSeq(str, 1, Len(str) - 1))
    ELSE str

\* String.prototype.trim
Trim(str) == TrimEnd(TrimStart(str))

\* .split("\n").map((line) => line.trim()).filter((line) => line.length > 0)
TrimmedLines(str) ==
  LET lines == Split(str, Newline)
      trimmed == [i \in 1..Len(lines) |-> Trim(lines[i])]
  IN SelectSeq(trimmed, LAMBDA line : Len(line) > 0)

\* summarizeWithGemini after the reply has come: the destructuring keeps
\* the first two parts of the split, and an empty summary is replaced.
ParseReply(rawText) ==
  LET parts == Split(rawText, KeyPointsMarker)
      summaryPart == parts[1]
      summary == Trim(ReplaceFirst(summaryPart, SummaryMarker))
  IN [summary |-> IF summary = <<>> THEN NoSummary ELSE summary,
      keyPoints |-> IF Len(parts) < 2 \/ parts[2] = <<>>
                      THEN <<>>
                      ELSE TrimmedLines(parts[2])]

\* await summarizeWithGemini(text), the model answering `rawText`.
CallSummarize(rawText) ==
  /\ spc = "idle"
  /\ sreq' = [op |-> "summarize", rawText |-> rawText]
  /\ sret' = Returned(ParseReply(rawText))
  /\ spc' = "read"
  /\ UNCHANGED <<storeVars, outsideSvc>>

SummarizerNext ==
  \/ \E rawText \in RawTexts : CallSummarize(rawText)
  \/ CallReturn

(***************************************************************************)
(* The request pipelines: summarize (text) and upload (file)               *)
(***************************************************************************)
MinTextLength == 10
MaxTextLength == 50000
MaxFileSize == 10485760
MaxFilenameLength == 255

\* req.body.text: absent, a truthy value that is no string, or a string of
\* `chars` characters between `pad` characters of surrounding whitespace.
TextLengths ==
  {0, 1, MinTextLength - 1, MinTextLength, MaxTextLength, MaxTextLength + 1}
Texts ==
  {[kind |-> "undefined", chars |-> 0, pad |-> 0],
   [kind |-> "number", chars |-> 0, pad |-> 0]}
  \cup [kind : {"string"}, chars : TextLengths, pad : {0, 1}]

\* JavaScript's !text is false for these.
Truthy(text) ==
  text.kind = "number" \/ (text.kind = "string" /\ text.chars + text.pad > 0)
\* text.length and text.trim().length
Length(text) == text.chars + text.pad
TrimLength(text) == text.chars

\* req.file as the client sent it.
allowedTypes ==
  {PDF, DOCX, "image/jpeg", "image/jpg", "image/png", "image/gif",
   "image/bmp", "image/tiff", "image/webp"}
MimeTypes == {PDF, DOCX, "image/png", "image/svg+xml", "text/plain"}
NoFile == [mimetype |-> NULL, size |-> 0, nameLen |-> 0, unsafe |-> FALSE]
Files ==
  {f \in [mimetype : MimeTypes, size : {0, 1, MaxFileSize, MaxFileSize + 1},
          nameLen : {0, 1, MaxFilenameLength, MaxFilenameLength + 1},
          unsafe : BOOLEAN] : f.unsafe => f.nameLen > 0}

Endpoints == {"summarize", "summarize_v1", "upload"}

NoText == [kind |-> "undefined", chars |-> 0, pad |-> 0]
\* Who sends the request: the uid its bearer token verifies for, or NULL when
\* the request carries no valid credential.
Callers == {"uA", NULL}

\* req.user?.uid || null
UidOf(user) == IF user \in {Unset, NULL} THEN NULL ELSE user

NoPipeReq ==
  [endpoint |-> NULL, text |-> NoText, file |-> NoFile, n0 |-> 0,
   caller |-> NULL, user |-> Unset]
NoOut ==
  [text |-> NULL, rawText |-> NULL, summary |-> NULL, keyPoints |-> NULL,
   saved |-> NULL, failed |-> NULL]
NoPipeRes == [status |-> 0, summary |-> NULL, keyPoints |-> NULL, id |-> NULL]

PipeInit ==
  /\ ppc = "idle"
  /\ preq = NoPipeReq
  /\ pcalls = <<>>
  /\ pout = NoOut
  /\ pres = NoPipeRes

\* Replies of the model: a well-formed one, an empty one, and one with
\* nothing but the "Summary" marker before "Key Points".
PipeReplies ==
  {<<SummaryMarker, Newline, "a", Newline,
     KeyPointsMarker, Newline, "a", Newline, "b">>,
   <<>>,
   <<SummaryMarker, Newline, KeyPointsMarker, Newline, "a">>}

\* What summarizeWithGemini resolves to: the parsed reply; the summary is
\* never empty ("No summary" stands in) and keyPoints is always a list.
SummaryResults == {ParseReply(rawText) : rawText \in PipeReplies}

\* !summaryResult || !summaryResult.summary, which the older
\* summarizeController does not check.
InvalidResult(endpoint, result) ==
  endpoint # "summarize_v1" /\ (result.summary = "" \/ result.summary = <<>>)

\* res.status(code).json(error)
PipeError(code) ==
  [status |-> code, summary |-> NULL, keyPoints |-> NULL, id |-> NULL]
\* res.status(200).json({ id, summary, keyPoints, ... })
PipeOk(summary, keyPoints, id) ==
  [status |-> 200, summary |-> summary, keyPoints |-> keyPoints, id |-> id]

\* What the pipelines never touch.
outsidePipe == <<histVars, ocrVars, authVars, svcVars, apiVars>>

PipeRespond(r) ==
  /\ ppc' = "done"
  /\ pres' = r

\* A validation stage turns the request down.
Reject(r) ==
  /\ pcalls' = Append(pcalls, "validate")
  /\ PipeRespond(r)
  /\ UNCHANGED <<preq, pout, storeVars, outsidePipe>>

\* A validation middleware passes the request on with next().
PassOn(pc) ==
  /\ pcalls' = Append(pcalls, "validate")
  /\ ppc' = pc
  /\ UNCHANGED <<preq, pout, pres, storeVars, outsidePipe>>

\* The controller calls an adapter and awaits it at `pc`.
Invoke(stage, pc) ==
  /\ pcalls' = Append(pcalls, stage)
  /\ ppc' = pc
  /\ UNCHANGED pres

\* A request arrives at one of the endpoints; the previous one is answered.
Arrive(endpoint, text, file, pc) ==
  /\ ppc \in {"idle", "done"}
  /\ nextId <= MaxDocs
  /\ \E caller \in Callers :
       preq' = [endpoint |-> endpoint, text |-> text, file |-> file,
                n0 |-> nextId, caller |-> caller, user |-> Unset]
  /\ ppc' = pc
  /\ pcalls' = <<>>
  /\ pout' = NoOut
  /\ pres' = NoPipeRes
  /\ UNCHANGED <<storeVars, outsidePipe>>

\* app.use("/api/summarize", summarizeRoutes); router.post("/", summarizeController)
SummarizeArrive(text) ==
  /\ text \in Texts
  /\ Arrive("summarize", text, NoFile, "validate")

\* The same route over the older controller.
SummarizeV1Arrive(text) ==
  /\ text \in Texts
  /\ Arrive("summarize_v1", text, NoFile, "validate")

\* router.post("/upload", logUploadProgress, ...)
UploadArrive(file) ==
  /\ file \in Files \cup {NoFile}
  /\ Arrive("upload", NoText, file, "multer")

\* summarizeController: the input checks, then the call of the summarizer.
SummarizeValidate ==
  /\ ppc = "validate"
  /\ preq.endpoint = "summarize"
  /\ LET text == preq.text
     IN IF ~Truthy(text) \/ text.kind # "string" \/ TrimLength(text) = 0
          THEN Reject(PipeError(400))
          ELSE IF TrimLength(text) < MinTextLength
            THEN Reject(PipeError(400))
            ELSE IF TrimLength(text) > MaxTextLength
              THEN Reject(PipeError(400))
              ELSE /\ pcalls' = pcalls \o <<"validate", "summarize">>
                   /\ ppc' = "summarizing"
                   /\ UNCHANGED <<preq, pout, pres, storeVars, outsidePipe>>

\* The older summarizeController: `if (!text)` is its only check.
SummarizeV1Validate ==
  /\ ppc = "validate"
  /\ preq.endpoint = "summarize_v1"
  /\ IF ~Truthy(preq.text)
       THEN Reject(PipeError(400))
       ELSE /\ pcalls' = pcalls \o <<"validate", "summarize">>
            /\ ppc' = "summarizing"
            /\ UNCHANGED <<preq, pout, pres, storeVars, outsidePipe>>

\* A plausible slip: the catch logs the failure and falls through to the save.
AwaitSummarizer_fallthrough ==
  /\ ppc = "summarizing"
  /\ \/ \E rawText \in PipeReplies :
          /\ pout' = [pout EXCEPT !.rawText = rawText,
                                   !.summary = ParseReply(rawText).summary,
                                   !.keyPoints = ParseReply(rawText).keyPoints]
          /\ Invoke("save", "saving")
     \/ /\ pout' = [pout EXCEPT !.failed = "summarize", !.summary = NoSummary,
                                 !.keyPoints = <<>>]
        /\ Invoke("save", "saving")
  /\ UNCHANGED <<preq, storeVars, outsidePipe>>

\* The await of summarizeWithGemini returns its result, and the controller
\* goes on to the save, or throws, and the controller's catch answers 500.
AwaitSummarizer ==
  /\ ppc = "summarizing"
  /\ \/ \E rawText \in PipeReplies :
          LET result == ParseReply(rawText)
          IN IF InvalidResult(preq.endpoint, result)
               THEN /\ pout' = [pout EXCEPT !.rawText = rawText,
                                             !.failed = "summarize"]
                    /\ PipeRespond(PipeError(500))
                    /\ UNCHANGED pcalls
               ELSE /\ pout' = [pout EXCEPT !.rawText = rawText,
                                             !.summary = result.summary,
                                             !.keyPoints = result.keyPoints]
                    /\ Invoke("save", "saving")
     \/ /\ pout' = [pout EXCEPT !.failed = "summarize"]
        /\ PipeRespond(PipeError(500))
        /\ UNCHANGED pcalls
  /\ UNCHANGED <<preq, storeVars, outsidePipe>>

\* summarizeController: the inner try around summarizeWithGemini.
SummarizeSummarized == preq.endpoint = "summarize" /\ AwaitSummarizer
\* The older summarizeController: its one try block.
SummarizeV1Summarized == preq.endpoint = "summarize_v1" /\ AwaitSummarizer

\* The await of saveSummary resolves with the stored record or rejects;
\* `onOk` and `onFail` are the two responses. summarizeController passes
\* req.user?.uid || null as the userId, the other two controllers pass none.
AwaitSave(onOk, onFail) ==
  /\ ppc = "saving"
  /\ \/ /\ saveSummary(IF preq.endpoint = "upload" THEN pout.text ELSE "t1",
                        pout.summary, pout.keyPoints,
                        IF preq.endpoint = "summarize"
                          THEN UidOf(preq.user) ELSE NULL)
        /\ pout' = [pout EXCEPT !.saved = "ok"]
        /\ PipeRespond(onOk)
     \/ /\ pout' = [pout EXCEPT !.saved = "failed"]
        /\ PipeRespond(onFail)
        /\ UNCHANGED storeVars
  /\ UNCHANGED <<preq, pcalls, outsidePipe>>

\* summarizeController: the save in its own try/catch, then the 200.
SummarizeSaved ==
  /\ preq.endpoint = "summarize"
  /\ AwaitSave(PipeOk(pout.summary, pout.keyPoints, nextId),
               PipeOk(pout.summary, pout.keyPoints, NULL))

\* The older summarizeController: the save shares the try of the summarizer.
SummarizeV1Saved ==
  /\ preq.endpoint = "summarize_v1"
  /\ AwaitSave(PipeOk(pout.summary, pout.keyPoints, nextId), PipeError(500))

\* fileFilter: the error code it hands to multer, or NULL when it accepts.
fileFilter(file) ==
  IF file.mimetype \notin allowedTypes THEN "INVALID_FILE_TYPE"
  ELSE IF file.nameLen = 0 \/ file.nameLen > MaxFilenameLength THEN "INVALID_FILENAME"
  ELSE IF file.unsafe THEN "UNSAFE_FILENAME"
  ELSE NULL

\* A plausible slip: only Multer's own errors are recognised.
handleUploadError_multerOnly(code) ==
  IF code \in {"LIMIT_FILE_SIZE", "LIMIT_UNEXPECTED_FILE"} THEN 400 ELSE 500

\* handleUploadError: the status it answers for an error code.
handleUploadError(code) ==
  IF code \in {"LIMIT_FILE_SIZE", "LIMIT_UNEXPECTED_FILE"} THEN 400
  ELSE IF code = "INVALID_FILE_TYPE" THEN 400
  ELSE IF code \in {"INVALID_FILENAME", "UNSAFE_FILENAME"} THEN 400
  ELSE 500

\* upload.single("file") with the fileFilter and the fileSize limit: the
\* error passed to the callback, or NULL.
uploadFile(file) ==
  IF file = NoFile THEN NULL
  ELSE IF fileFilter(file) # NULL THEN fileFilter(file)
  ELSE IF file.size > MaxFileSize THEN "LIMIT_FILE_SIZE"
  ELSE NULL

\* The multer step of router.post("/upload").
Multer ==
  /\ ppc = "multer"
  /\ LET err == uploadFile(preq.file)
     IN IF err # NULL
          THEN Reject(PipeError(handleUploadError(err)))
          ELSE PassOn("validateUploaded")

\* validateUploadedFile
ValidateUploadedFile ==
  /\ ppc = "validateUploaded"
  /\ IF preq.file = NoFile
       THEN Reject(PipeError(400))
       ELSE IF preq.file.size = 0
         THEN Reject(PipeError(400))
         ELSE PassOn("controller")

\* validateFileForProcessing: the list of errors, here as a set.
validateFileForProcessing(file) ==
  (IF file.size > MaxFileSize THEN {"size"} ELSE {})
  \cup (IF file.mimetype \notin allowedTypes THEN {"type"} ELSE {})
  \cup (IF file.nameLen = 0 \/ file.nameLen > MaxFilenameLength
          THEN {"filename"} ELSE {})
  \cup (IF file.nameLen > 0 /\ file.unsafe THEN {"unsafe"} ELSE {})

\* uploadFileController: its own checks, then the call of the extractor.
UploadController ==
  /\ ppc = "controller"
  /\ IF preq.file = NoFile
       THEN Reject(PipeError(400))
       ELSE IF validateFileForProcessing(preq.file) # {}
         THEN Reject(PipeError(400))
         ELSE /\ pcalls' = pcalls \o <<"validate", "extract">>
              /\ ppc' = "extracting"
              /\ UNCHANGED <<preq, pout, pres, storeVars, outsidePipe>>

\* extractTextFromFile: extractTextFromPDF always throws; the other
\* converters return text of at least ten characters or throw.
ExtractOutcomes(mimetype) ==
  IF mimetype = PDF THEN {"throws"} ELSE {"text", "throws"}

\* uploadFileController: the try around extractTextFromFile; its catch
\* answers 422, otherwise the summarizer is called.
UploadExtracted ==
  /\ ppc = "extracting"
  /\ \E o \in ExtractOutcomes(preq.file.mimetype) :
       IF o = "text"
         THEN /\ pout' = [pout EXCEPT !.text = "t1"]
              /\ Invoke("summarize", "summarizing")
         ELSE /\ pout' = [pout EXCEPT !.failed = "extract"]
              /\ PipeRespond(PipeError(422))
              /\ UNCHANGED pcalls
  /\ UNCHANGED <<preq, storeVars, outsidePipe>>

\* uploadFileController: the try around summarizeWithGemini.
UploadSummarized == preq.endpoint = "upload" /\ AwaitSummarizer

\* uploadFileController: the save in its own try/catch, then the 200 built
\* by formatFileUploadResponse, which carries no record id.
UploadSaved ==
  /\ preq.endpoint = "upload"
  /\ AwaitSave(PipeOk(pout.summary, pout.keyPoints, NULL),
               PipeOk(pout.summary, pout.keyPoints, NULL))

PipeNext ==
  \/ \E t \in Texts : SummarizeArrive(t)
  \/ \E t \in Texts : SummarizeV1Arrive(t)
  \/ \E f \in Files \cup {NoFile} : UploadArrive(f)
  \/ SummarizeValidate
  \/ SummarizeV1Validate
  \/ SummarizeSummarized
  \/ SummarizeV1Summarized
  \/ SummarizeSaved
  \/ SummarizeV1Saved
  \/ Multer
  \/ ValidateUploadedFile
  \/ UploadController
  \/ UploadExtracted
  \/ UploadSummarized
  \/ UploadSaved

(***************************************************************************)
(* The OCR worker (tesseract.js createWorker / recognize / terminate)      *)
(***************************************************************************)
\* How many workers are ever created.
MaxWorkers == 2
MinOcrLength == 5

\* extractTextFromImage of the file processor (two versions of it) and the
\* two versions of the standalone OCR endpoint.
Extractors == {"fileProcessor", "lib/fileProcessor"}
OcrHandlers == {"api/ocr", "ocr"}

\* Error messages, by what the catch blocks look for in them.
MsgWorker == "worker failed to start"
MsgNetwork == "fetch failed"
MsgSetParameters == "invalid parameter"
MsgRecognize == "recognize: cannot read image"
MsgNoText == "No text could be recognized in the image."
MsgNoReadable == "No readable text found in image."

NoRet == [kind |-> "none", value |-> NULL]
Returns(text) == [kind |-> "returns", value |-> text]
Throws(msg) == [kind |-> "throws", value |-> msg]
Answers(status) == [kind |-> "answers", value |-> status]

OcrInit ==
  /\ opc = "idle"
  /\ oimpl = NULL
  /\ ow = 0
  /\ workers = <<>>
  /\ oerr = NULL
  /\ oret = NoRet

outsideOcr == <<storeVars, histVars, pipeVars, authVars, svcVars, apiVars>>

OcrBegin(impl, pc, ret) ==
  /\ opc \in {"idle", "done"}
  /\ Len(workers) < MaxWorkers
  /\ oimpl' = impl
  /\ opc' = pc
  /\ ow' = 0
  /\ oerr' = NULL
  /\ oret' = ret
  /\ UNCHANGED <<workers, outsideOcr>>

\* extractTextFromImage(buffer) is called: `let worker;` and the try opens.
ExtractImageCall(impl) ==
  /\ impl \in Extractors
  /\ OcrBegin(impl, "create", NoRet)

\* The OCR endpoint's handler up to createWorker: the method check, then
\* reading the body (api/ocr.js also answers 400 when the form has no file).
OcrHandlerCall(impl, method, body) ==
  /\ impl \in OcrHandlers
  /\ body = "nofile" => impl = "api/ocr"
  /\ IF method # "POST" THEN OcrBegin(impl, "done", Answers(405))
     ELSE IF body = "unreadable" THEN OcrBegin(impl, "done", Answers(500))
     ELSE IF body = "nofile" THEN OcrBegin(impl, "done", Answers(400))
     ELSE OcrBegin(impl, "create", NoRet)

\* await createWorker(...): a new worker, or a rejection.
CreateWorker ==
  /\ opc = "create"
  /\ \/ /\ workers' = Append(workers, 0)
        /\ ow' = Len(workers) + 1
        /\ opc' = IF oimpl \in Extractors THEN "setParameters" ELSE "recognize"
        /\ UNCHANGED <<oerr, oret>>
     \/ \E msg \in {MsgWorker, MsgNetwork} :
          /\ IF oimpl \in Extractors
               THEN opc' = "catch" /\ oerr' = msg /\ UNCHANGED oret
               ELSE opc' = "done" /\ oret' = Answers(500) /\ UNCHANGED oerr
          /\ UNCHANGED <<ow, workers>>
  /\ UNCHANGED <<oimpl, outsideOcr>>

\* await worker.setParameters(...), in extractTextFromImage only.
SetParameters ==
  /\ opc = "setParameters"
  /\ \/ opc' = "recognize" /\ UNCHANGED oerr
     \/ opc' = "catch" /\ oerr' = MsgSetParameters
  /\ UNCHANGED <<oimpl, ow, workers, oret, outsideOcr>>

\* The length of the cleaned text that recognize() may produce.
OcrTextLengths == {0, MinOcrLength - 1, MinOcrLength, MinTextLength}

\* await worker.recognize(buffer) in extractTextFromImage, and the check of
\* the cleaned text that follows it.
ExtractRecognize ==
  /\ opc = "recognize"
  /\ oimpl \in Extractors
  /\ \/ \E n \in OcrTextLengths :
          IF n < MinOcrLength
            THEN /\ opc' = "catch"
                 /\ oerr' = IF oimpl = "fileProcessor" THEN MsgNoText ELSE MsgNoReadable
                 /\ UNCHANGED oret
            ELSE /\ opc' = "finally"
                 /\ oret' = Returns(n)
                 /\ UNCHANGED oerr
     \/ opc' = "catch" /\ oerr' = MsgRecognize /\ UNCHANGED oret
  /\ UNCHANGED <<oimpl, ow, workers, outsideOcr>>

\* error.message.includes("recognize") / includes("worker")
IncludesRecognize(msg) == msg \in {MsgRecognize, MsgNoText}
IncludesWorker(msg) == msg = MsgWorker

\* The catch block of extractTextFromImage: the error it throws instead.
ExtractCatch ==
  /\ opc = "catch"
  /\ oret' = IF oimpl = "fileProcessor" /\ IncludesRecognize(oerr)
               THEN Throws("OCR processing failed.")
             ELSE IF IncludesWorker(oerr)
               THEN Throws("OCR service initialization failed. Please try again.")
             ELSE Throws(<<"Image text extraction failed: ", oerr>>)
  /\ opc' = "finally"
  /\ UNCHANGED <<oimpl, ow, workers, oerr, outsideOcr>>

\* The finally block of extractTextFromImage: `if (worker)` terminate it,
\* swallowing a failure of terminate() itself.
ExtractFinally ==
  /\ opc = "finally"
  /\ workers' = IF ow # 0 THEN [workers EXCEPT ![ow] = @ + 1] ELSE workers
  /\ opc' = "done"
  /\ UNCHANGED <<oimpl, ow, oerr, oret, outsideOcr>>

\* await worker.recognize(buffer) in the OCR endpoint: a rejection goes
\* straight to the handler's catch, which answers 500.
HandlerRecognize ==
  /\ opc = "recognize"
  /\ oimpl \in OcrHandlers
  /\ \/ \E n \in OcrTextLengths : opc' = "terminate" /\ oret' = Returns(n)
     \/ opc' = "done" /\ oret' = Answers(500)
  /\ UNCHANGED <<oimpl, ow, workers, oerr, outsideOcr>>

\* await worker.terminate() in the OCR endpoint, then the 200; a rejection
\* of terminate() is answered 500.
HandlerTerminate ==
  /\ opc = "terminate"
  /\ workers' = [workers EXCEPT ![ow] = @ + 1]
  /\ opc' = "done"
  /\ \/ oret' = Answers(200)
     \/ oret' = Answers(500)
  /\ UNCHANGED <<oimpl, ow, oerr, outsideOcr>>

OcrNext ==
  \/ \E impl \in Extractors : ExtractImageCall(impl)
  \/ \E impl \in OcrHandlers, method \in {"POST", "GET"},
        body \in {"image", "nofile", "unreadable"} :
       OcrHandlerCall(impl, method, body)
  \/ CreateWorker
  \/ SetParameters
  \/ ExtractRecognize
  \/ ExtractCatch
  \/ ExtractFinally
  \/ HandlerRecognize
  \/ HandlerTerminate

(***************************************************************************)
(* The text extractor (services/fileProcessor.js) under the upload         *)
(* controller                                                              *)
(***************************************************************************)
Return == "\r"
\* What \s matches, among the characters of the model.
Blank == WhiteSpace \cup {Return}

\* The elements of str at the indices of idx, in order.
Pick(str, idx) ==
  [i \in 1..Cardinality(idx) |->
     str[CHOOSE j \in idx : Cardinality({k \in idx : k <= j}) = i]]

\* str[i..j] is all whitespace.
SameRun(str, i, j) == \A k \in i..j : str[k] \in Blank

RECURSIVE Collapse(_)
\* .replace(/\s+/g, " ")
Collapse(str) ==
  IF str = <<>> THEN <<>>
  ELSE IF Head(str) \in Blank
    THEN IF Len(str) > 1 /\ str[2] \in Blank
           THEN Collapse(Tail(str))
           ELSE <<Space>> \o Collapse(Tail(str))
    ELSE <<Head(str)>> \o Collapse(Tail(str))

\* .replace(/\n\s*\n/g, "\n"): in a run of whitespace, what lies after its
\* first newline up to its last newline goes.
DropBlankLines(str) ==
  Pick(str, {i \in 1..Len(str) :
    ~(/\ str[i] \in Blank
      /\ \E j \in 1..(i - 1) : str[j] = Newline /\ SameRun(str, j, i)
      /\ \E k \in i..Len(str) : str[k] = Newline /\ SameRun(str, i, k))})

\* .replace(/\r\n/g, "\n").replace(/\r/g, "\n")
NormalizeLineEnds(str) ==
  LET kept == Pick(str, {i \in 1..Len(str) :
                ~(str[i] = Return /\ i < Len(str) /\ str[i + 1] = Newline)})
  IN [i \in 1..Len(kept) |-> IF kept[i] = Return THEN Newline ELSE kept[i]]

\* .replace(/\n{3,}/g, "\n\n")
LimitLineBreaks(str) ==
  Pick(str, {i \in 1..Len(str) :
    ~(i > 2 /\ str[i] = Newline /\ str[i - 1] = Newline /\ str[i - 2] = Newline)})

\* .replace(/\s+$/gm, ""): whitespace that runs up to a line end or to the
\* end of the text goes.
StripLineEnds(str) ==
  Pick(str, {i \in 1..Len(str) :
    ~(/\ str[i] \in Blank
      /\ \/ SameRun(str, i, Len(str))
         \/ \E k \in (i + 1)..Len(str) : str[k] = Newline /\ SameRun(str, i, k))})

\* extractTextFromFile: "Clean up the final text".
FinalText(extractedText) ==
  Trim(StripLineEnds(LimitLineBreaks(NormalizeLineEnds(extractedText))))

\* A plausible slip: the final check uses the converters' threshold.
TooShort_converter(finalText) == Len(finalText) < MinOcrLength

\* if (finalText.length < 10)
TooShort(finalText) == Len(finalText) < MinTextLength

\* What a converter library may hand back: letters between and around
\* whitespace of several kinds.
Letters(n) == [i \in 1..n |-> "a"]
Pads ==
  {<<>>, <<Space>>, <<Return, Newline>>, <<Newline, Space, Newline, Newline>>}
ConverterTexts ==
  {l \o Letters(n) \o m \o Letters(k) \o t :
     l \in Pads, m \in Pads, t \in Pads, n \in {0, 4, 5}, k \in {0, 4, 5, 6}}

\* Error messages are sequences of phrases, cut so that every phrase a catch
\* block looks for begins and ends at a cut.
\* String.prototype.includes
Includes(message, phrase) ==
  \E i \in 0..(Len(message) - Len(phrase)) :
    SubSeq(message, i + 1, i + Len(phrase)) = phrase

Filename == "notes"
MsgPdfUnavailable ==
  <<"PDF processing is temporarily unavailable",
    " due to technical constraints in the serverless environment.">>
MsgDocxEmpty == <<"No meaningful text found in DOCX file.">>
MsgUnsupportedType(mimetype) ==
  <<"Unsupported file type", ": ", mimetype, ". Currently supported formats: ",
    "DOCX (Word Documents), JPEG/PNG/GIF/BMP/TIFF/WebP (Images for OCR).">>
MsgTooShort ==
  <<"The extracted text is ", "too short", " to be meaningful.">>
MsgOcrNoText ==
  <<"No text could be ", "recognize", "d", " in the image.">>
\* What mammoth and tesseract.js may throw of their own.
MammothErrors ==
  {<<"Can't find end of central directory">>,
   <<"File is ", "password protected">>}
TesseractErrors ==
  {<<"worker", " failed to start">>, <<"fetch failed">>,
   <<"Error in ", "recognize", ": cannot read image">>}

\* The messages of uploadFileController's 422.
UserGeneric == "Failed to extract text from the uploaded file."
UserInvalidPdf == "The PDF file appears to be corrupted or invalid."
UserPassword == "The PDF file is password protected."
UserNoText == "No readable text was found in the image."
UserDocx == "The Word document could not be processed."
UserTooShort == "The file doesn't contain enough readable text to process."

\* The failure classes and the message each is to reach the caller with.
ClassMessage ==
  [password |-> UserPassword, notext |-> UserNoText, docx |-> UserDocx,
   short |-> UserTooShort]

\* The catch block of extractTextFromImage: the error it throws instead.
ImageRethrow(message) ==
  IF Includes(message, <<"recognize">>)
    THEN <<"OCR processing failed.">>
  ELSE IF Includes(message, <<"worker">>)
    THEN <<"OCR service initialization failed. Please try again.">>
  ELSE <<"Image text extraction failed: ">> \o message

\* The catch block of extractTextFromFile: the error it throws instead.
FileRethrow(message) ==
  IF Includes(message, <<"PDF processing is temporarily unavailable">>)
    THEN message
  ELSE IF Includes(message, <<"password protected">>)
    THEN <<"The file ", Filename, " is ", "password protected", ".">>
  ELSE IF Includes(message, <<"No text could be ", "recognize", "d">>)
    THEN <<"No readable text was found in the image ", Filename, ".">>
  ELSE IF Includes(message, <<"DOCX extraction failed">>)
    THEN <<"The Word document ", Filename, " could not be processed.">>
  ELSE IF Includes(message, <<"Unsupported file type">>)
    THEN message
  ELSE <<"Failed to extract text from ", Filename, ": ">> \o message

\* The catch block of uploadFileController: the user's message.
UserMessage(message) ==
  IF Includes(message, <<"Invalid PDF">>) THEN UserInvalidPdf
  ELSE IF Includes(message, <<"password protected">>) THEN UserPassword
  ELSE IF Includes(message, <<"No text could be ", "recognize", "d">>)
    THEN UserNoText
  ELSE IF Includes(message, <<"DOCX extraction failed">>) THEN UserDocx
  ELSE IF Includes(message, <<"too short">>) THEN UserTooShort
  ELSE UserGeneric

\* mimetype.startsWith("image/"), over the types of the model.
StartsWithImage(mimetype) ==
  mimetype \in {"image/jpeg", "image/jpg", "image/png", "image/gif",
                "image/bmp", "image/tiff", "image/webp", "image/svg+xml"}

\* One call of extractTextFromFile by the upload controller. `converter`,
\* `worker`, `converted` and `class` are ghosts: which converter was called,
\* whether an OCR worker was created, the text the converter returned, and
\* the class of the failure where it was raised.
NoExtract ==
  [op |-> "extract", mimetype |-> NULL, converter |-> NULL, worker |-> FALSE,
   converted |-> NULL, class |-> NULL, status |-> 0, userMessage |-> NULL,
   summarized |-> NULL]

\* extractTextFromFile(file): the routing on file.mimetype.
ExtractCall(mimetype) ==
  /\ spc = "idle"
  /\ LET converter ==
           IF mimetype = PDF THEN "pdf"
           ELSE IF mimetype = DOCX THEN "docx"
           ELSE IF StartsWithImage(mimetype) THEN "image"
           ELSE NULL
     IN /\ sreq' = [NoExtract EXCEPT !.mimetype = mimetype,
                                     !.converter = converter]
        /\ IF converter = NULL
             THEN /\ spc' = "caught"
                  /\ sret' = Thrown(MsgUnsupportedType(mimetype))
             ELSE /\ spc' = "converting"
                  /\ sret' = NoSret
  /\ UNCHANGED <<storeVars, outsideSvc>>

\* extractTextFromPDF: it throws, always.
ConvertPdf ==
  /\ spc = "converting"
  /\ sreq.converter = "pdf"
  /\ spc' = "caught"
  /\ sret' = Thrown(MsgPdfUnavailable)
  /\ UNCHANGED <<sreq, storeVars, outsideSvc>>

\* extractTextFromDOCX: mammoth's text collapsed and trimmed, refused under
\* five characters; whatever is thrown is rethrown as a DOCX failure.
ConvertDocx ==
  /\ spc = "converting"
  /\ sreq.converter = "docx"
  /\ \/ \E raw \in ConverterTexts :
          LET extractedText == Trim(Collapse(raw))
          IN IF Len(extractedText) < MinOcrLength
               THEN /\ spc' = "caught"
                    /\ sret' = Thrown(<<"DOCX extraction failed", ": ">>
                                        \o MsgDocxEmpty)
                    /\ sreq' = [sreq EXCEPT !.class = "docx"]
               ELSE /\ spc' = "cleaning"
                    /\ sret' = Returned(extractedText)
                    /\ sreq' = [sreq EXCEPT !.converted = extractedText]
     \/ \E error \in MammothErrors :
          /\ spc' = "caught"
          /\ sret' = Thrown(<<"DOCX extraction failed", ": ">> \o error)
          /\ sreq' = [sreq EXCEPT !.class =
                        IF Includes(error, <<"password protected">>)
                          THEN "password" ELSE "docx"]
  /\ UNCHANGED <<storeVars, outsideSvc>>

\* extractTextFromImage: the worker, the recognized text cleaned and refused
\* under five characters, and the catch that rethrows.
ConvertImage ==
  /\ spc = "converting"
  /\ sreq.converter = "image"
  /\ \/ \E raw \in ConverterTexts :
          LET cleanText == Trim(Collapse(DropBlankLines(raw)))
          IN IF Len(cleanText) < MinOcrLength
               THEN /\ spc' = "caught"
                    /\ sret' = Thrown(ImageRethrow(MsgOcrNoText))
                    /\ sreq' = [sreq EXCEPT !.worker = TRUE, !.class = "notext"]
               ELSE /\ spc' = "cleaning"
                    /\ sret' = Returned(cleanText)
                    /\ sreq' = [sreq EXCEPT !.worker = TRUE,
                                            !.converted = cleanText]
     \/ \E error \in TesseractErrors :
          /\ spc' = "caught"
          /\ sret' = Thrown(ImageRethrow(error))
          /\ sreq' = [sreq EXCEPT !.worker = ~Includes(error, <<"worker">>)]
  /\ UNCHANGED <<storeVars, outsideSvc>>

\* extractTextFromFile after the converter: the final clean-up and the check
\* of the length.
ExtractClean ==
  /\ spc = "cleaning"
  /\ LET finalText == FinalText(sret.data)
     IN IF TooShort(finalText)
          THEN /\ spc' = "caught"
               /\ sret' = Thrown(MsgTooShort)
               /\ sreq' = [sreq EXCEPT !.class = "short"]
          ELSE /\ spc' = "returned"
               /\ sret' = Returned(finalText)
               /\ UNCHANGED sreq
  /\ UNCHANGED <<storeVars, outsideSvc>>

\* The catch block of extractTextFromFile.
ExtractRethrow ==
  /\ spc = "caught"
  /\ spc' = "threw"
  /\ sret' = Thrown(FileRethrow(sret.message))
  /\ UNCHANGED <<sreq, storeVars, outsideSvc>>

\* uploadFileController around the call: the 422 of its catch, or the call
\* of the summarizer with the extracted text.
UploadAfterExtract ==
  /\ spc \in {"returned", "threw"}
  /\ sreq' = IF sret.ok
               THEN [sreq EXCEPT !.summarized = sret.data]
               ELSE [sreq EXCEPT !.status = 422,
                                 !.userMessage = UserMessage(sret.message)]
  /\ spc' = "read"
  /\ UNCHANGED <<sret, storeVars, outsideSvc>>

ExtractNext ==
  \/ \E mimetype \in MimeTypes : ExtractCall(mimetype)
  \/ ConvertPdf
  \/ ConvertDocx
  \/ ConvertImage
  \/ ExtractClean
  \/ ExtractRethrow
  \/ UploadAfterExtract
  \/ CallReturn

(***************************************************************************)
(* Authentication: the Express middleware of the history router, the       *)
(* next-connect chains that register the lib/auth.js wrappers, and the     *)
(* notes function that checks the token itself                             *)
(***************************************************************************)
\* The Authorization header: absent, not of the form "Bearer <token>",
\* "Bearer " with nothing after it, or a bearer token that is forged,
\* expired, valid for a user, or valid for an anonymous sign-in.
Tokens ==
  {[kind |-> "forged", uid |-> NULL], [kind |-> "expired", uid |-> "uA"]}
  \cup [kind : {"valid", "anonymous"}, uid : Users]
NoToken == [kind |-> "none", uid |-> NULL]
Headers ==
  {[scheme |-> "none", token |-> NoToken],
   [scheme |-> "Basic", token |-> NoToken],
   [scheme |-> "Bearer", token |-> NoToken]}
  \cup [scheme : {"Bearer"}, token : Tokens]

\* firebaseAdmin.auth().verifyIdToken(token) resolves for these, and
\* rejects for every other token.
Verifies(token) == token.kind \in {"valid", "anonymous"}

\* The endpoints: the Express history router, the next-connect upload and
\* history handlers, and the notes function.
AuthEndpoints ==
  {"/api/history", "pages/api/upload", "pages/api/history",
   "pages/api/history/[id]", "api/notes"}

NoAuthReq == [endpoint |-> NULL, header |-> [scheme |-> "none", token |-> NoToken]]
NoAuthRes == [status |-> 0, by |-> NULL, handler |-> FALSE, identity |-> NULL]

AuthInit ==
  /\ apc = "idle"
  /\ areq = NoAuthReq
  /\ auser = Unset
  /\ aguest = Unset
  /\ ares = NoAuthRes

outsideAuth == <<storeVars, histVars, pipeVars, ocrVars, svcVars, apiVars>>

\* A request arrives; the one before it is over (answered or abandoned).
AuthArrive(endpoint, header) ==
  /\ apc \in {"idle", "done", "stalled"}
  /\ areq' = [endpoint |-> endpoint, header |-> header]
  /\ apc' = CASE endpoint = "/api/history" -> "verifyToken"
              [] endpoint = "api/notes" -> "notes"
              [] OTHER -> "cors"
  /\ auser' = Unset
  /\ aguest' = Unset
  /\ ares' = NoAuthRes
  /\ UNCHANGED outsideAuth

AuthGoto(pc) ==
  /\ apc' = pc
  /\ UNCHANGED <<areq, ares, outsideAuth>>

\* verifyToken (Express) up to its first await: a request without a bearer
\* token goes on as a guest.
VerifyToken ==
  /\ apc = "verifyToken"
  /\ IF areq.header.scheme # "Bearer" \/ areq.header.token = NoToken
       THEN /\ auser' = NULL
            /\ aguest' = "true"
            /\ AuthGoto("allowGuests")
       ELSE /\ UNCHANGED <<auser, aguest>>
            /\ AuthGoto("verifyIdToken")

\* verifyToken: the await of verifyIdToken and the inner try/catch, then next().
VerifyIdToken ==
  /\ apc = "verifyIdToken"
  /\ LET token == areq.header.token
     IN IF Verifies(token)
          THEN /\ auser' = token.uid
               /\ aguest' = IF token.kind = "anonymous" THEN "true" ELSE "false"
          ELSE /\ auser' = NULL
               /\ aguest' = "true"
  /\ AuthGoto("allowGuests")

\* allowGuests (Express): next().
AllowGuests ==
  /\ apc = "allowGuests"
  /\ UNCHANGED <<auser, aguest>>
  /\ AuthGoto("route")

\* A route of the history router runs with userId = req.user?.uid || null
\* and answers with what the service gave it.
HistoryRoute ==
  /\ apc = "route"
  /\ \E status \in {200, 404, 500} :
       ares' = [status |-> status, by |-> "route", handler |-> TRUE,
                identity |-> auser]
  /\ apc' = "done"
  /\ UNCHANGED <<areq, auser, aguest, outsideAuth>>

\* The first middleware of the next-connect handlers: CORS, then next().
Cors ==
  /\ apc = "cors"
  /\ UNCHANGED <<auser, aguest>>
  /\ AuthGoto("use")

\* handler.use(allowGuest) / handler.use(requireAuth): next-connect calls
\* the registered function as fn(req, res, next). Both are wrappers that take
\* a handler and return a new one, so the call only builds a closure: it
\* reads no header, sets no req.user, sends nothing and never calls next.
UseWrapper ==
  /\ apc = "use"
  /\ UNCHANGED <<auser, aguest>>
  /\ AuthGoto("stalled")

\* api/notes.js up to its first await: 401 without a bearer token.
NotesToken ==
  /\ apc = "notes"
  /\ IF areq.header.scheme # "Bearer" \/ areq.header.token = NoToken
       THEN /\ ares' = [status |-> 401, by |-> "auth", handler |-> FALSE,
                        identity |-> NULL]
            /\ apc' = "done"
       ELSE /\ apc' = "notesVerify"
            /\ UNCHANGED ares
  /\ UNCHANGED <<areq, auser, aguest, outsideAuth>>

\* api/notes.js: the await of verifyIdToken; a rejection is answered 401.
NotesVerify ==
  /\ apc = "notesVerify"
  /\ IF Verifies(areq.header.token)
       THEN /\ apc' = "notesQuery"
            /\ ares' = [ares EXCEPT !.handler = TRUE,
                                    !.identity = areq.header.token.uid]
       ELSE /\ apc' = "done"
            /\ ares' = [status |-> 401, by |-> "auth", handler |-> FALSE,
                        identity |-> NULL]
  /\ UNCHANGED <<areq, auser, aguest, outsideAuth>>

\* api/notes.js: the query of the user's notes, in the same try: the notes
\* with 200, or the catch's 401 when the query fails.
NotesQuery ==
  /\ apc = "notesQuery"
  /\ \E status \in {200, 401} :
       ares' = [ares EXCEPT !.status = status, !.by = "handler"]
  /\ apc' = "done"
  /\ UNCHANGED <<areq, auser, aguest, outsideAuth>>

AuthNext ==
  \/ \E e \in AuthEndpoints, h \in Headers : AuthArrive(e, h)
  \/ VerifyToken
  \/ VerifyIdToken
  \/ AllowGuests
  \/ HistoryRoute
  \/ Cors
  \/ UseWrapper
  \/ NotesToken
  \/ NotesVerify
  \/ NotesQuery

\* What the server does on its own once a request is in: every middleware
\* and handler step. Only the arrival of a request is up to the client.
AuthStep ==
  \/ VerifyToken
  \/ VerifyIdToken
  \/ AllowGuests
  \/ HistoryRoute
  \/ Cors
  \/ UseWrapper
  \/ NotesToken
  \/ NotesVerify
  \/ NotesQuery

(***************************************************************************)
(* The auth API: POST /api/auth/verify and POST /api/auth/guest            *)
(***************************************************************************)
\* How many profiles are ever inserted.
MaxUsers == 2

\* What the providers say about a token: whose it is, or nothing.
Identities ==
  {[provider |-> "google", id |-> "g1", email |-> "a@x"],
   [provider |-> "facebook", id |-> "f1", email |-> "a@x"],
   [provider |-> "google", id |-> "g2", email |-> "b@x"]}
NoIdentity == [provider |-> NULL, id |-> NULL, email |-> NULL]
VerifyTokens == {"g1", "f1", "g2", "bad", NULL}
VerifyProviders == {"google", "facebook", "twitter", NULL}

\* verifyGoogleToken / verifyFacebookToken: the identity, or NoIdentity
\* when the provider turns the token down and the function throws.
ProviderSays(provider, token) ==
  IF \E i \in Identities : i.provider = provider /\ i.id = token
    THEN CHOOSE i \in Identities : i.provider = provider /\ i.id = token
    ELSE NoIdentity

NoVerifyReq ==
  [provider |-> NULL, token |-> NULL, userData |-> NoIdentity, existing |-> 0]
\* The `success` field of a response body is "true", "false" or, when the
\* body has no such field, Unset; these handlers send { error } or
\* { token, user }.
NoVerifyRes == [status |-> 0, success |-> Unset, error |-> NULL, userId |-> 0]

ApiInit ==
  /\ users = {}
  /\ nextUserId = 1
  /\ vpc = [c \in Clients |-> "idle"]
  /\ vreq = [c \in Clients |-> NoVerifyReq]
  /\ vres = [c \in Clients |-> NoVerifyRes]
  /\ clock = 0
  /\ gres = [status |-> 0]

\* What the auth API never touches.
outsideApi == <<storeVars, histVars, pipeVars, ocrVars, authVars, svcVars>>

\* res.status(code).json({ error })
VerifyError(c, code, error) ==
  /\ vpc' = [vpc EXCEPT ![c] = "done"]
  /\ vres' = [vres EXCEPT ![c] =
                [status |-> code, success |-> Unset, error |-> error, userId |-> 0]]

\* res.status(200).json({ token, user })
VerifyOk(c, userId) ==
  /\ vpc' = [vpc EXCEPT ![c] = "done"]
  /\ vres' = [vres EXCEPT ![c] =
                [status |-> 200, success |-> Unset, error |-> NULL,
                 userId |-> userId]]

\* handler.post up to its first await: the two 400s, then the provider call.
VerifyPost(c, provider, token) ==
  /\ vpc[c] \in {"idle", "done"}
  /\ nextUserId <= MaxUsers
  /\ vreq' = [vreq EXCEPT ![c] =
                [provider |-> provider, token |-> token,
                 userData |-> NoIdentity, existing |-> 0]]
  /\ IF provider = NULL \/ token = NULL
       THEN VerifyError(c, 400, "Provider and token are required")
       ELSE IF provider \notin {"google", "facebook"}
              THEN VerifyError(c, 400, "Unsupported provider")
              ELSE /\ vpc' = [vpc EXCEPT ![c] = "verifying"]
                   /\ vres' = [vres EXCEPT ![c] = NoVerifyRes]
  /\ UNCHANGED <<users, nextUserId, clock, gres, outsideApi>>

\* The await of the provider's verification: userData, or the throw that
\* the catch answers with 401 ("Invalid ... token").
VerifyProviderToken(c) ==
  /\ vpc[c] = "verifying"
  /\ LET userData == ProviderSays(vreq[c].provider, vreq[c].token)
     IN IF userData = NoIdentity
          THEN /\ VerifyError(c, 401, "Invalid token")
               /\ UNCHANGED vreq
          ELSE /\ vreq' = [vreq EXCEPT ![c].userData = userData]
               /\ vpc' = [vpc EXCEPT ![c] = "finding"]
               /\ UNCHANGED vres
  /\ UNCHANGED <<users, nextUserId, clock, gres, outsideApi>>

\* The $or filter of findOne.
Matches(profile, userData) ==
  \/ profile.providerId = userData.id /\ profile.provider = userData.provider
  \/ profile.email = userData.email

\* await users.findOne({ $or: [...] }): one matching profile or null.
VerifyFindOne(c) ==
  /\ vpc[c] = "finding"
  /\ IF \E p \in users : Matches(p, vreq[c].userData)
       THEN \E p \in users :
              /\ Matches(p, vreq[c].userData)
              /\ vreq' = [vreq EXCEPT ![c].existing = p._id]
              /\ vpc' = [vpc EXCEPT ![c] = "updating"]
       ELSE /\ vreq' = [vreq EXCEPT ![c].existing = 0]
            /\ vpc' = [vpc EXCEPT ![c] = "inserting"]
  /\ UNCHANGED <<users, nextUserId, vres, clock, gres, outsideApi>>

\* The database call rejects: the catch answers 500.
VerifyDbError(c) ==
  /\ vpc[c] = "finding"
  /\ VerifyError(c, 500, "Authentication failed")
  /\ UNCHANGED <<users, nextUserId, vreq, clock, gres, outsideApi>>

\* await users.findOneAndUpdate({ _id }, { $set: { provider, providerId,
\* name, picture, lastLogin } }), then the token and the 200.
VerifyUpdate(c) ==
  /\ vpc[c] = "updating"
  /\ users' = {IF p._id = vreq[c].existing
                 THEN [p EXCEPT !.provider = vreq[c].userData.provider,
                                !.providerId = vreq[c].userData.id]
                 ELSE p : p \in users}
  /\ VerifyOk(c, vreq[c].existing)
  /\ UNCHANGED <<nextUserId, vreq, clock, gres, outsideApi>>

\* await users.insertOne(newUser), then the token and the 200.
VerifyInsert(c) ==
  /\ vpc[c] = "inserting"
  /\ users' = users \cup
       {[_id |-> nextUserId, email |-> vreq[c].userData.email,
         provider |-> vreq[c].userData.provider,
         providerId |-> vreq[c].userData.id]}
  /\ nextUserId' = nextUserId + 1
  /\ VerifyOk(c, nextUserId)
  /\ UNCHANGED <<vreq, clock, gres, outsideApi>>

\* Date.now() advances.
TickMs == 400
MaxClock == 8000
Tick ==
  /\ clock < MaxClock
  /\ clock' = clock + TickMs
  /\ UNCHANGED <<users, nextUserId, vpc, vreq, vres, gres, outsideApi>>

OneHour == 60 * 60
SevenDays == 7 * 24 * 60 * 60
\* Math.random().toString(36).substr(2, 9)
Randoms == {"r1", "r2"}

generateToken_default(payload, expiresIn) ==
  [payload |-> payload, iat |-> clock \div 1000,
   exp |-> (clock \div 1000) + SevenDays]

\* jwt.sign(payload, JWT_SECRET, { expiresIn }): iat is the time in whole
\* seconds and exp is iat plus the lifetime.
generateToken(payload, expiresIn) ==
  [payload |-> payload, iat |-> clock \div 1000,
   exp |-> (clock \div 1000) + expiresIn]

\* serialize(name, value, { ...defaults, ...options })
generateCookie(name, value, options) ==
  [name |-> name, value |-> value] @@ options @@
    [httpOnly |-> TRUE, sameSite |-> "lax", maxAge |-> SevenDays, path |-> "/"]

\* handler.post of /api/auth/guest: synchronous, no database call.
GuestPost(random) ==
  /\ LET guestPayload == [role |-> "guest",
                           sessionId |-> <<"guest", clock, random>>,
                           createdAt |-> clock]
         guestToken == generateToken(guestPayload, OneHour)
         cookie == generateCookie("auth_token", guestToken,
                                  [maxAge |-> 60 * 60])
     IN gres' = [status |-> 200, success |-> Unset, at |-> clock,
                 token |-> guestToken, cookie |-> cookie,
                 user |-> [role |-> "guest",
                           sessionId |-> guestPayload.sessionId,
                           expiresAt |-> clock + 60 * 60 * 1000]]
  /\ UNCHANGED <<users, nextUserId, vpc, vreq, vres, clock, outsideApi>>

GuestNext ==
  \/ Tick
  \/ \E random \in Randoms : GuestPost(random)

VerifyNext ==
  \/ \E c \in Clients, p \in VerifyProviders, t \in VerifyTokens :
       VerifyPost(c, p, t)
  \/ \E c \in Clients :
       \/ VerifyProviderToken(c)
       \/ VerifyFindOne(c)
       \/ VerifyDbError(c)
       \/ VerifyUpdate(c)
       \/ VerifyInsert(c)

(***************************************************************************)
(* Properties of the auth API                                              *)
(***************************************************************************)
\* C21: every response sent carries a boolean `success` field, and it is
\* true exactly when the status is 2xx.
C21_SuccessEnvelope ==
  \A c \in Clients :
    vpc[c] = "done"
      => /\ vres[c].success \in {"true", "false"}
         /\ vres[c].success = "true" <=> vres[c].status \in 200..299

\* C22: whatever verify requests have succeeded, in whatever interleaving,
\* no two profiles share a (provider, providerId) pair and no two share an
\* email.
C22_OneProfilePerIdentity ==
  \A p, q \in users :
    p._id # q._id
      => /\ ~(p.provider = q.provider /\ p.providerId = q.providerId)
         /\ p.email # q.email

C9_ResolverNeverFails ==
  LET h == areq.header
      verifies == h.scheme = "Bearer" /\ Verifies(h.token)
  IN areq.endpoint \in {"/api/history", "pages/api/upload"}
       => /\ ares.by # "auth"
          /\ apc # "stalled"
          /\ apc \in {"allowGuests", "route", "done"}
               => auser = IF verifies THEN h.token.uid ELSE NULL

\* C10: on the endpoints that require authentication, a request whose
\* credential is absent or does not verify ends with 401 and the handler
\* not run, and one whose credential verifies reaches the handler with the
\* decoded identity; on every other endpoint no request is answered 401.
C10_Hard401OnlyWhereRequired ==
  LET h == areq.header
      verifies == h.scheme = "Bearer" /\ Verifies(h.token)
      protected == areq.endpoint \in
                     {"pages/api/history", "pages/api/history/[id]", "api/notes"}
      over == apc \in {"done", "stalled"}
  IN /\ (protected /\ over /\ ~verifies)
          => ares.status = 401 /\ ~ares.handler
     /\ (protected /\ over /\ verifies)
          => ares.handler /\ ares.identity = h.token.uid
     /\ ~protected => ares.status # 401

\* C11: every request that arrives on a recognized path is eventually
\* answered: from every point of its middleware chain the request reaches
\* the state where its response has been sent.
C11_EveryRequestAnswered ==
  \A e \in AuthEndpoints :
    (areq.endpoint = e /\ apc \notin {"idle", "done"})
      ~> (areq.endpoint = e /\ apc = "done" /\ ares.status # 0)

(***************************************************************************)
(* Properties of the bulk delete                                           *)
(***************************************************************************)
\* C17: the bulk delete answers only after every delete it issued has
\* settled, with 200 and a deletedCount equal to the number of listed
\* records only when all of them succeeded, and with an error when one
\* failed.
C17_BulkAnswersAfterAllSettled ==
  (spc = "read" /\ sreq.op = "bulk")
    => /\ \A id \in DOMAIN sreq.deletes : sreq.deletes[id] \in {"ok", "failed"}
       /\ sret.ok <=> \A id \in DOMAIN sreq.deletes : sreq.deletes[id] = "ok"
       /\ sret.ok => sret.data = Cardinality(DOMAIN sreq.deletes)

\* C24: when the bulk delete has answered 200 and no record was inserted
\* meanwhile, the caller's collection is empty, however many records it
\* held.
C24_BulkDeleteEmptiesScope ==
  (spc = "read" /\ sreq.op = "bulk" /\ sret.ok)
    => db[CollOf(sreq.userId)] = {}

\* C30: the statistics of a call are those of the records of the caller's
\* scope and of no others: totalSummaries is their number, totalWords the
\* sum of their wordCount, the counts by file type add up to totalSummaries
\* with the records that have no file type under "text", last7Days is at
\* most last30Days and that at most totalSummaries; and the call changes
\* no record.
C30_StatsOverScope ==
  [][\A u \in OwnerIds, now \in StatsNows :
       CallStats(u, now)
         => LET scope == db[CollOf(u)]
                stats == sret'.data
                types == DOMAIN stats.fileTypes
            IN /\ sret'.ok
               /\ stats.totalSummaries = Cardinality(scope)
               /\ stats.totalWords =
                    3 * Cardinality({d \in scope : d.wordCount = 3})
                    + 5 * Cardinality({d \in scope : d.wordCount = 5})
               /\ \A d \in scope : d.wordCount \in {0, 3, 5}
               /\ \A t \in types :
                    stats.fileTypes[t] =
                      Cardinality({d \in scope :
                        IF t = "text" THEN d.fileType = Unset
                        ELSE d.fileType = t})
               /\ \A d \in scope : d.fileType = Unset \/ d.fileType \in types
               /\ (\E d \in scope : d.fileType = Unset) => "text" \in types
               /\ stats.recentActivity.last7Days
                    <= stats.recentActivity.last30Days
               /\ stats.recentActivity.last30Days <= stats.totalSummaries
               /\ db' = db]_vars

\* C30 happens: statistics over the global scope, holding a text record and
\* an uploaded one of which only the later is of the last seven days, while
\* a user's collection holds nothing.
C30_Witness ==
  /\ spc = "read"
  /\ sreq.op = "stats"
  /\ sreq.userId = NULL
  /\ sret.data.totalSummaries = 2
  /\ DOMAIN sret.data.fileTypes = {"text", PDF}
  /\ sret.data.recentActivity.last7Days = 1
  /\ sret.data.totalWords = 8

(***************************************************************************)
(* Properties of the text extractor                                        *)
(***************************************************************************)
\* C27: the extractor calls the PDF converter for application/pdf, the DOCX
\* converter for the DOCX type and OCR for an allowed image type; for every
\* other type, an image type outside the allowed set included, it calls no
\* converter, creates no OCR worker and throws the unsupported-type error.
C27_RoutesByExactType ==
  (sreq.op = "extract" /\ spc # "idle")
    => /\ sreq.mimetype = PDF => sreq.converter = "pdf"
       /\ sreq.mimetype = DOCX => sreq.converter = "docx"
       /\ sreq.mimetype \in allowedTypes \ {PDF, DOCX}
            => sreq.converter = "image"
       /\ sreq.mimetype \notin allowedTypes
            => /\ sreq.converter = NULL
               /\ ~sreq.worker
               /\ spc = "threw"
                    => Includes(sret.message, <<"Unsupported file type">>)

\* C28: a text the extractor returns has at least ten characters and no
\* whitespace at either end; converter output that is shorter once
\* normalized is answered with an error; and the summarizer is never handed
\* fewer than ten characters.
C28_ExtractedTextLongEnough ==
  sreq.op = "extract"
    => /\ spc = "returned"
            => /\ sret.ok
               /\ Len(sret.data) >= 10
               /\ Head(sret.data) \notin Blank
               /\ sret.data[Len(sret.data)] \notin Blank
       /\ (spc = "read" /\ sreq.converted # NULL)
            => IF Len(FinalText(sreq.converted)) < 10
                 THEN sreq.status = 422 /\ sreq.summarized = NULL
                 ELSE sreq.status = 0 /\ Len(sreq.summarized) >= 10

\* C28 happens: a converter returned a text of nine characters, past its
\* own threshold of five, and the upload was answered 422.
C28_Witness ==
  /\ sreq.op = "extract"
  /\ spc = "read"
  /\ sreq.converted # NULL
  /\ Len(sreq.converted) = 9
  /\ sreq.status = 422

\* C29: a failure of a known class raised inside the extractor is answered
\* 422 with the message of its own class.
C29_FailureClassKept ==
  (sreq.op = "extract" /\ spc = "read" /\ sreq.class # NULL)
    => /\ sreq.status = 422
       /\ sreq.userMessage = ClassMessage[sreq.class]

(***************************************************************************)
(* Properties of the OCR worker                                            *)
(***************************************************************************)
\* C8: no worker is terminated twice, and when an OCR operation has
\* completed, whatever its outcome, every worker that was created has been
\* terminated exactly once.
C8_WorkerTerminatedOnce ==
  /\ \A w \in 1..Len(workers) : workers[w] <= 1
  /\ opc \in {"idle", "done"} => \A w \in 1..Len(workers) : workers[w] = 1

(***************************************************************************)
(* Properties of the history store                                         *)
(***************************************************************************)
\* C12: a save followed by a read of the returned id under the same
\* ownerId returns the summary and the key points that were supplied, the
\* key points in the same order and of the same length.
C12_SaveReadRoundTrip ==
  (spc = "read" /\ sreq.op = "save")
    => /\ sret.ok
       /\ sret.data.id = sreq.id
       /\ sret.data.summary = sreq.summary
       /\ sret.data.keyPoints = sreq.keyPoints
       /\ Len(sret.data.keyPoints) = Len(sreq.keyPoints)

\* C12 happens: a record with two key points, not in sorted order, was
\* saved under a user and read back.
C12_Witness ==
  /\ spc = "read"
  /\ sreq.op = "save"
  /\ sreq.userId \in Users
  /\ sreq.keyPoints = <<"k2", "k1">>
  /\ sret.ok

\* C18: an update with a body, on an id that has no record in the scope it
\* addresses, is answered 404 whether or not an ownerId was supplied, and it
\* writes nothing.
C18_UpdateMissingNotFound ==
  \A c \in Clients :
    (/\ hpc[c] = "done"
     /\ hreq[c].op = "update"
     /\ hreq[c].updates # NoUpdates
     /\ hreq[c].absent)
      => hres[c].status = 404 /\ ~hres[c].wrote

\* C19: a list call during which the caller's collection did not change
\* returns records of that collection only, never more than `limit`, and as
\* many as the collection has at positions offset+1 to offset+limit (none
\* when the offset is past the end); sorted by createdAt they are exactly
\* the records at those positions, in order.
C19_ListReturnsThePage ==
  (/\ spc = "read"
   /\ sreq.op = "list"
   /\ db[CollOf(sreq.userId)] = sreq.snapshot)
    => LET o == sreq.options
           coll == CollOf(sreq.userId)
           n == Cardinality(db[coll])
           last == IF o.offset + o.limit < n THEN o.offset + o.limit ELSE n
           page == sret.data
       IN /\ Len(page) <= o.limit
          /\ \A i \in 1..Len(page) : page[i] \in db[coll]
          /\ Len(page) = IF last > o.offset THEN last - o.offset ELSE 0
          /\ o.sortBy = "createdAt"
               => page = SubSeq(OrderBy(coll, "createdAt", o.sortOrder),
                                o.offset + 1, last)

\* C20: whatever saves, updates and deletes have run, the summary and the
\* key points of every stored record are the pair that one call of the
\* summarizer made of the record's original text.
C20_RecordsWhollySummarized ==
  \A coll \in Colls :
    \A d \in db[coll] :
      /\ d.summary = Summarized(d.original).summary
      /\ d.keyPoints = Summarized(d.original).keyPoints

\* C25: an update that succeeds changes, in the record it addresses, only
\* the fields its body names and updatedAt and version, updatedAt being the
\* server's instant whatever the body says; the id, createdAt and every
\* other field of the record, every other record and every other
\* collection stay as they were, and the record returned is the stored one
\* with the body's fields merged in.
C25_UpdateFrame ==
  [][\A c \in Clients :
       LET coll == CollOf(hreq[c].userId)
           id == hreq[c].id
           updates == hreq[c].updates
           server == {"updatedAt", "version"}
       IN /\ (UpdWrite(c) /\ hpc'[c] = "upd_read")
               => /\ \A k \in Colls \ {coll} : db'[k] = db[k]
                  /\ {d \in db'[coll] : d.id # id} = {d \in db[coll] : d.id # id}
                  /\ \E new \in db'[coll] :
                       /\ new.id = id
                       /\ \A f \in DOMAIN DocAt(coll, id) \ (DOMAIN updates \cup server) :
                            new[f] = DocAt(coll, id)[f]
                       /\ \A f \in DOMAIN updates \ server : new[f] = updates[f]
                       /\ new.updatedAt = "now"
                       /\ new.version = "2.0"
                  /\ nextId' = nextId
                  /\ owners' = owners
          /\ (UpdRead(c) /\ hres'[c].status = 200)
               => /\ hres'[c].data = DocAt(coll, id)
                  /\ \A f \in DOMAIN updates \ server :
                       hres'[c].data[f] = updates[f]
                  /\ hres'[c].data.updatedAt = "now"]_vars

\* C25 happens: a record's key points were replaced and the 200 sent while
\* the same collection holds another record.
C25_Witness ==
  /\ hpc["c1"] = "done"
  /\ hres["c1"].status = 200
  /\ hreq["c1"].updates = [keyPoints |-> <<"k3">>]
  /\ Cardinality(db[CollOf(hreq["c1"].userId)]) > 1

\* C26: in every stored record the aliases agree with the fields they
\* stand for: originalContent with original, summarizedContent with
\* summary, timestamp with createdAt, keyPointsCount with the number of key
\* points.
C26_AliasesInStep ==
  \A coll \in Colls :
    \A d \in db[coll] :
      /\ d.originalContent = d.original
      /\ d.summarizedContent = d.summary
      /\ d.timestamp = d.createdAt
      /\ d.keyPointsCount = Len(d.keyPoints)

\* C3: getById, delete and update called with the ownerId of a user who does
\* not own the id are answered exactly as for an id that no record has (404,
\* the one message of the operation, no data) and write nothing, whether or
\* not another user owns a record with that id.
C3_OwnershipIsolation ==
  \A c \in Clients :
    LET r == hreq[c]
    IN (/\ hpc[c] = "done"
        /\ r.userId # NULL
        /\ ~OwnedBy(r.id, r.userId))
         => hres[c] =
              CASE r.op = "get" -> Err(404, MsgFetchNotFound, FALSE)
                [] r.op = "delete" -> Err(404, MsgDeleteDenied, FALSE)
                [] r.op = "update" /\ r.updates # NoUpdates ->
                     Err(404, MsgUpdateDenied, FALSE)
                [] OTHER -> Err(400, "No update data provided", FALSE)

\* C3 happens: uB has asked to delete and to update an id that uA owns and
\* whose record is still in uA's collection.
C3_Witness ==
  \E id \in 1..MaxDocs :
    /\ OwnedBy(id, "uA")
    /\ Exists(CollOf("uA"), id)
    /\ \E c, d \in Clients :
         /\ hpc[c] = "done" /\ hpc[d] = "done"
         /\ hreq[c].userId = "uB" /\ hreq[d].userId = "uB"
         /\ hreq[c].id = id /\ hreq[d].id = id
         /\ hreq[c].op = "delete"
         /\ hreq[d].op = "update" /\ hreq[d].updates # NoUpdates

\* C6: a delete of an id that has no record in the addressed scope is
\* answered 404 and removes nothing, with and without an ownerId.
C6_DeleteMissingNotFound ==
  \A c \in Clients :
    (hpc[c] = "done" /\ hreq[c].op = "delete" /\ hreq[c].absent)
      => hres[c].status = 404 /\ ~hres[c].wrote

\* C7: of two overlapping deletes of the same existing record in the same
\* scope, exactly one is answered with success and the other with 404.
C7_ConcurrentDeletesOneWinner ==
  \A c, d \in Clients :
    (/\ c # d
     /\ hpc[c] = "done" /\ hpc[d] = "done"
     /\ hreq[c].op = "delete" /\ hreq[d].op = "delete"
     /\ hreq[c].id = hreq[d].id
     /\ hreq[c].userId = hreq[d].userId
     /\ ~hreq[c].absent /\ ~hreq[d].absent
     /\ c \in hreq[d].peers \/ d \in hreq[c].peers)
      => {hres[c].status, hres[d].status} = {200, 404}

(***************************************************************************)
(* Properties of the summarizer                                            *)
(***************************************************************************)
\* The content of a reply before and after its first "Key Points" marker.
BeforeMarker(rawText) ==
  LET i == IndexOf(rawText, KeyPointsMarker)
  IN IF i = 0 THEN rawText ELSE SubSeq(rawText, 1, i - 1)
AfterMarker(rawText) ==
  LET i == IndexOf(rawText, KeyPointsMarker)
  IN IF i = 0 THEN <<>> ELSE SubSeq(rawText, i + 1, Len(rawText))

\* C15: for every reply, the key points are all the non-empty trimmed lines
\* of the content after the "Key Points" marker, in order and none dropped
\* (none at all when the reply has no marker), and the summary, when the
\* content before the marker has one, is that content with "Summary"
\* stripped and the result trimmed.
C15_ReplyParsedInFull ==
  (spc = "read" /\ sreq.op = "summarize")
    => LET before == Trim(ReplaceFirst(BeforeMarker(sreq.rawText), SummaryMarker))
       IN /\ sret.data.keyPoints = TrimmedLines(AfterMarker(sreq.rawText))
          /\ before # <<>> => sret.data.summary = before

(***************************************************************************)
(* Properties of the pipelines                                             *)
(***************************************************************************)
Invoked(stage) == \E i \in 1..Len(pcalls) : pcalls[i] = stage

\* C1: a summarize request whose text is missing, is not a string, is empty,
\* is shorter than 10 characters or is longer than 50,000 characters is
\* answered 400, and neither the summarizer nor the history save is invoked
\* for it.
C1_InvalidTextRejected ==
  LET text == preq.text
      invalid == \/ text.kind # "string"
                 \/ Length(text) < MinTextLength
                 \/ Length(text) > MaxTextLength
  IN (preq.endpoint \in {"summarize", "summarize_v1"} /\ invalid)
       => /\ ~Invoked("summarize")
          /\ ~Invoked("save")
          /\ ppc = "done" => pres.status = 400

\* C2: an upload that violates the upload policy (no file, a MIME type
\* outside the allowed set, more than 10MB, a filename that is missing,
\* longer than 255 characters or unsafe) is answered 400 or 422, and the
\* extractor, the summarizer and the history save are never invoked for it.
C2_UploadPolicyEnforced ==
  LET f == preq.file
      violates == \/ f = NoFile
                  \/ f.mimetype \notin allowedTypes
                  \/ f.size > MaxFileSize
                  \/ f.nameLen = 0
                  \/ f.nameLen > MaxFilenameLength
                  \/ f.unsafe
  IN (preq.endpoint = "upload" /\ violates)
       => /\ ~Invoked("extract")
          /\ ~Invoked("summarize")
          /\ ~Invoked("save")
          /\ ppc = "done" => pres.status \in {400, 422}

\* C2 happens: uploads of a text/plain file, of an oversized PDF and of no
\* file at all have each been turned down.
C2_Witness ==
  /\ ppc = "done"
  /\ preq.endpoint = "upload"
  /\ preq.file # NoFile
  /\ preq.file.mimetype = PDF
  /\ preq.file.size > MaxFileSize
  /\ preq.file.nameLen = 1
  /\ ~preq.file.unsafe
  /\ pres.status = 400

\* C4: when the summarizer succeeded and the history save then failed, the
\* response is the 200 of a successful save with the same summary and
\* keyPoints and a null record id.
C4_SaveFailureSwallowed ==
  (ppc = "done" /\ pout.saved = "failed")
    => /\ pres.status = 200
       /\ pres = PipeOk(pout.summary, pout.keyPoints, NULL)

\* C5: the stages run in the order validate, extract, summarize, persist,
\* each adapter at most once; a failed extraction is answered 422 with no
\* summarizer call and no save, a failed summarization is answered 500 with
\* no save, and a request answered with an error stored no record.
C5_PipelineOrder ==
  LET Rank(stage) == CASE stage = "validate" -> 0
                       [] stage = "extract" -> 1
                       [] stage = "summarize" -> 2
                       [] stage = "save" -> 3
  IN /\ \A i, j \in 1..Len(pcalls) :
          i < j => /\ Rank(pcalls[i]) <= Rank(pcalls[j])
                   /\ pcalls[i] # "validate" => pcalls[i] # pcalls[j]
     /\ pcalls # <<>> => pcalls[1] = "validate"
     /\ pout.failed = "extract"
          => /\ pres.status = 422
             /\ ~Invoked("summarize")
             /\ ~Invoked("save")
     /\ pout.failed = "summarize"
          => /\ pres.status = 500
             /\ ~Invoked("save")
     /\ pres.status \notin {0, 200} => nextId = preq.n0

\* C5 happens: an upload passed validation and extraction, its summarizer
\* call failed, and it was answered without a save.
C5_Witness ==
  /\ ppc = "done"
  /\ preq.endpoint = "upload"
  /\ pout.failed = "summarize"
  /\ pcalls = <<"validate", "validate", "validate", "extract", "summarize">>

\* C13: when a caller with a valid credential completes a summarize or an
\* upload whose record was saved, authentication ran before the first
\* validation stage and the record is in the caller's own collection, not
\* in the global one.
C13_SavedUnderCaller ==
  (/\ ppc = "done"
   /\ pres.status = 200
   /\ pout.saved = "ok"
   /\ preq.caller \in Users)
    => /\ pcalls # <<>> /\ pcalls[1] = "auth"
       /\ Exists(CollOf(preq.caller), preq.n0)
       /\ ~Exists(historyCollection, preq.n0)

\* C14: a summarize or an upload sent without a valid credential creates no
\* record, and its 200 response still carries the summary.
C14_GuestLeavesNoRecord ==
  (ppc = "done" /\ preq.caller = NULL)
    => /\ nextId = preq.n0
       /\ \A c \in Colls : ~Exists(c, preq.n0)
       /\ pres.status = 200 => pres.summary = pout.summary

\* C16: a request whose model reply has no usable summary (nothing but
\* white space and the "Summary" marker before "Key Points") is answered
\* with an error, never 200, and saves no record.
C16_UnusableReplyRejected ==
  (/\ ppc = "done"
   /\ pout.rawText # NULL
   /\ Trim(ReplaceFirst(BeforeMarker(pout.rawText), SummaryMarker)) = <<>>)
    => /\ pres.status >= 400
       /\ nextId = preq.n0

(***************************************************************************)
(* Specifications                                                          *)
(***************************************************************************)
Init ==
  /\ StoreInit /\ HistInit /\ PipeInit /\ OcrInit /\ AuthInit /\ ServiceInit
  /\ ApiInit

SpecStore == Init /\ [][StoreNext]_vars
SpecUpdate == Init /\ [][UpdateNext]_vars
SpecRoundTrip == Init /\ [][RoundTripNext]_vars
SpecSummarizer == Init /\ [][SummarizerNext]_vars
SpecBulk == Init /\ [][BulkNext]_vars
SpecClear == Init /\ [][ClearNext]_vars
SpecList == Init /\ [][ListNext]_vars
SpecStats == Init /\ [][StatsNext]_vars
SpecPipeline == Init /\ [][PipeNext]_vars
SpecOcr == Init /\ [][OcrNext]_vars
SpecExtract == Init /\ [][ExtractNext]_vars
SpecAuth == Init /\ [][AuthNext]_vars
SpecVerify == Init /\ [][VerifyNext]_vars
SpecGuest == Init /\ [][GuestNext]_vars
\* The event loop runs every callback that is ready: a request that is in
\* keeps moving for as long as one of its steps is enabled.
SpecAuthFair == SpecAuth /\ WF_vars(AuthStep)

====
